---------------------------- MODULE Spec2Model ----------------------------
(***************************************************************************)
(* Model of the chibi pipeline of server.js: the resilient invoker         *)
(* (callGemini), the person scanner (scanPersonsInPhotos,                  *)
(* _describePersons), the synthesizer (generateSingleChibi), the           *)
(* background segmenter (removeWhiteBackground) and the orchestrator       *)
(* (generateAllChibis).                                                    *)
(*                                                                         *)
(* Each component has its own specification over the shared variables:     *)
(*   SpecInvoker   one call of callGemini                                  *)
(*   SpecScan      one call of scanPersonsInPhotos                         *)
(*   SpecFill      one call of removeWhiteBackground                       *)
(*   SpecPipeline  one call of generateAllChibis (scanner included)        *)
(* Every await of the code is a step boundary; the code between two awaits *)
(* runs as one action.                                                     *)
(***************************************************************************)
EXTENDS Integers, Sequences, FiniteSets, TLC

VARIABLES
    \* ---- callGemini (server.js 21-46)
    cg_pc,        \* "idle" | "call" | "sleep" | "returned" | "thrown"
    cg_model,     \* index into MODELS of the tier of the pending attempt
    cg_attempt,   \* the inner loop's attempt (0 or 1)
    lastErr,      \* the last error caught (NoErr before the first)
    cg_trace,     \* every attempt and every backoff sleep, in order
    cg_ret,       \* the response returned or the error thrown
    \* ---- scanPersonsInPhotos (server.js 67-114)
    imagePaths,   \* the input list: [path, exists] per photo
    scan_pc,      \* "idle" | "start" | "single_call" | "multi_call" |
                  \* "multi_merge" | "multi_sleep" | "returned"
    validPhotos,  \* indices (0-based, as in the code) of the photos found
    scan_k,       \* position in validPhotos of the multi-photo loop (1-based)
    scan_res,     \* what the last callGemini of _describePersons gave
    scan_desc,    \* descriptions of the current photo not yet merged
    allPersons,   \* the roster under construction
    scan_trace,   \* describe calls, merge decisions and pacing sleeps, in order
    scan_ret,     \* the roster returned
    \* ---- generateSingleChibi (server.js 155-225)
    gen_pc,       \* "idle" | "request" | "segment" | "sleep429" | "sleep3" |
                  \* "returned" | "thrown"
    gen_args,     \* [photoPath, recordId, personIndex] of the call, and its poseIdx
    gen_attempt,  \* the loop's attempt (0..MAX_RETRIES)
    gen_requests, \* the generateContent requests the call has issued
    gen_last,     \* how the latest attempt ended ("none" before the first)
    gen_gap,      \* ms slept since the latest attempt ended
    gen_raw,      \* [part, bytes, height] of the image part accepted (0: none)
    gen_out,      \* the image written: [segmented, height] (height 0: none)
    gen_ret,      \* the path returned, NullPath for null
    files,        \* the chibi files written to the uploads directory
    \* ---- generateAllChibis (server.js 327-350)
    all_pc,       \* "idle" | "start" | "scan" | "synth" | "pace" |
                  \* "returned" | "thrown"
    recordId,     \* the record identifier
    persons,      \* the roster the scanner returned
    all_i,        \* the loop's index i (0-based)
    results,      \* the paths collected
    all_trace,    \* synthesizer calls (with what they returned) and pacing sleeps
    all_ret,      \* the list returned
    \* ---- removeWhiteBackground (server.js 228-324)
    rwb_pc,       \* "idle" | "decode" | "trim" | "resize" | "returned"
    imgBuffer,    \* the input image: [width, height, data]
    rwb_mask,     \* mask: position -> UNVISITED | BACKGROUND | FOREGROUND
    rwb_queue,    \* queue: every position pushed, in order
    rwb_data,     \* data: position -> [r, g, b, a] after the alpha passes
    rwb_failed,   \* the step that threw: "none" | "decode" | "fill" | "trim" | "resize"
    rwb_ret,      \* [kind: "none" | "resized" | "input", bytes]: what is returned
    \* ---- the routes that start pipelines (server.js 533-740)
    srv_now,      \* Date.now(), in ms
    db,           \* db.json: the records [id, imgs, chibi, scenery], in order
    feat_pending, \* ids whose background feature extraction has not written back
    runs,         \* the generateAllChibis invocations started, in order
    refreshes,    \* the refresh-characters requests: [pc, snap, idx, run]
    srv_deletes,  \* the records removed by DELETE /api/records/:id
    \* ---- the chat routes (server.js 904-1124)
    chat_session, \* the session in chatSessions: [exists, history, chatLog, keywords, lastActive]
    chat_reqs     \* the POST /api/chat/message requests: [message, sent, pc]

invokerVars == <<cg_pc, cg_model, cg_attempt, lastErr, cg_trace, cg_ret>>

scanVars == <<imagePaths, scan_pc, validPhotos, scan_k, scan_res, scan_desc, allPersons,
              scan_trace, scan_ret>>

genVars == <<gen_pc, gen_args, gen_attempt, gen_requests, gen_last, gen_gap, gen_raw,
            gen_out, gen_ret, files>>

allVars == <<all_pc, recordId, persons, all_i, results, all_trace, all_ret>>

fillVars == <<rwb_pc, imgBuffer, rwb_mask, rwb_queue, rwb_data, rwb_failed, rwb_ret>>

serverVars == <<srv_now, db, feat_pending, runs, refreshes, srv_deletes>>

vars == <<invokerVars, scanVars, genVars, allVars, fillVars, serverVars, chat_session, chat_reqs>>

notInvokerVars == <<scanVars, genVars, allVars, fillVars, serverVars, chat_session, chat_reqs>>

notScanVars == <<invokerVars, genVars, allVars, fillVars, serverVars, chat_session, chat_reqs>>

notGenVars == <<invokerVars, scanVars, allVars, fillVars, serverVars, chat_session, chat_reqs>>

notFillVars == <<invokerVars, scanVars, genVars, allVars, serverVars, chat_session, chat_reqs>>

notServerVars == <<invokerVars, scanVars, genVars, allVars, fillVars, chat_session, chat_reqs>>

(***************************************************************************)
(* Resilient invoker: callGemini                                           *)
(***************************************************************************)

\* server.js 18: the ordered tier list.
MODELS == <<"gemini-2.0-flash", "gemini-2.0-flash-lite", "gemma-3-27b-it", "gemma-3-12b-it">>

\* The status a rate-limited call fails with (server.js 30).
RATE_LIMIT_STATUS == 429

\* The backoff before the second attempt on a tier, in ms (server.js 33).
BACKOFF_MS == 2000

\* The inner loop's bound: attempt < 2 (server.js 24).
ATTEMPTS_PER_MODEL == 2

\* Statuses a failing generateContent call may carry: rate limit, bad
\* request, server error, and 0 for an error without a status field.
ErrStatuses == {RATE_LIMIT_STATUS, 400, 503, 0}

NoErr == [model |-> 0, status |-> 0, seq |-> 0]

NoRet == [kind |-> "none", model |-> 0, seq |-> 0, status |-> 0]

\* The error object thrown by attempt number seq (made on tier m).
MkErr(m, status, seq) == [model |-> m, status |-> status, seq |-> seq]

Attempt(m, a, ok, status) ==
    [ev |-> "attempt", model |-> m, attempt |-> a, ok |-> ok, status |-> status, ms |-> 0]

Sleep(m, ms) ==
    [ev |-> "sleep", model |-> m, attempt |-> 0, ok |-> FALSE, status |-> 0, ms |-> ms]

IsRateLimited_never(err) == FALSE

IsRateLimited_always(err) == TRUE

\* server.js 30: err.status === 429
IsRateLimited(err) == err.status = RATE_LIMIT_STATUS

CatchErr_keepFirst(old, err) == IF old = NoErr THEN err ELSE old

\* server.js 29: lastErr = err
CatchErr(old, err) == err

\* server.js 45: throw lastErr || new Error(...): the last error caught,
\* or a fresh error (no tier, no status) when none was caught.
Thrown(le) ==
    IF le = NoErr
    THEN [kind |-> "error", model |-> 0, seq |-> 0, status |-> 0]
    ELSE [kind |-> "error", model |-> le.model, seq |-> le.seq, status |-> le.status]

NextTier_skip(m) == IF m + 2 <= Len(MODELS) THEN m + 2 ELSE m + 1

\* server.js 23: for (const model of MODELS): the tier after tier m.
NextTier(m) == m + 1

\* server.js 21-26: the call starts on the first tier with attempt 0 and
\* issues the first generateContent request.
CallGeminiEnter ==
    /\ cg_pc = "idle"
    /\ cg_pc' = "call"
    /\ cg_model' = 1
    /\ cg_attempt' = 0
    /\ lastErr' = NoErr
    /\ cg_trace' = <<>>
    /\ cg_ret' = NoRet
    /\ UNCHANGED notInvokerVars

\* server.js 26-27: the pending request resolves; callGemini returns it.
GenerateContentOk ==
    /\ cg_pc = "call"
    /\ cg_trace' = Append(cg_trace, Attempt(cg_model, cg_attempt, TRUE, 0))
    /\ cg_ret' = [kind |-> "response", model |-> cg_model,
                  seq |-> Len(cg_trace) + 1, status |-> 0]
    /\ cg_pc' = "returned"
    /\ UNCHANGED <<cg_model, cg_attempt, lastErr>>
    /\ UNCHANGED notInvokerVars

\* server.js 28-45: the pending request rejects. A rate-limited first
\* attempt starts the backoff sleep; any other failure leaves the tier:
\* the next tier's first request is issued, or, after the last tier,
\* lastErr is thrown.
GenerateContentFail ==
    /\ cg_pc = "call"
    /\ UNCHANGED notInvokerVars
    /\ \E status \in ErrStatuses :
         LET err == MkErr(cg_model, status, Len(cg_trace) + 1)
             le  == CatchErr(lastErr, err)
         IN  /\ cg_trace' = Append(cg_trace, Attempt(cg_model, cg_attempt, FALSE, status))
             /\ lastErr' = le
             /\ IF IsRateLimited(err) /\ cg_attempt = 0
                THEN /\ cg_pc' = "sleep"
                     /\ UNCHANGED <<cg_model, cg_attempt, cg_ret>>
                ELSE IF cg_model < Len(MODELS)
                THEN /\ cg_pc' = "call"
                     /\ cg_model' = NextTier(cg_model)
                     /\ cg_attempt' = 0
                     /\ UNCHANGED cg_ret
                ELSE /\ cg_pc' = "thrown"
                     /\ cg_ret' = Thrown(le)
                     /\ UNCHANGED <<cg_model, cg_attempt>>

\* server.js 33 and 24: the 2 s backoff elapses, attempt++ and, while
\* attempt < 2, the same tier is requested again.
BackoffElapsed ==
    /\ cg_pc = "sleep"
    /\ UNCHANGED notInvokerVars
    /\ cg_trace' = Append(cg_trace, Sleep(cg_model, BACKOFF_MS))
    /\ IF cg_attempt + 1 < ATTEMPTS_PER_MODEL
       THEN /\ cg_pc' = "call"
            /\ cg_attempt' = cg_attempt + 1
            /\ UNCHANGED <<cg_model, lastErr, cg_ret>>
       ELSE IF cg_model < Len(MODELS)
       THEN /\ cg_pc' = "call"
            /\ cg_model' = NextTier(cg_model)
            /\ cg_attempt' = 0
            /\ UNCHANGED <<lastErr, cg_ret>>
       ELSE /\ cg_pc' = "thrown"
            /\ cg_ret' = Thrown(lastErr)
            /\ UNCHANGED <<cg_model, cg_attempt, lastErr>>

InvokerIdle ==
    /\ cg_pc = "idle"
    /\ cg_model = 0
    /\ cg_attempt = 0
    /\ lastErr = NoErr
    /\ cg_trace = <<>>
    /\ cg_ret = NoRet

(***************************************************************************)
(* Strings: a string is a sequence of one-character strings, and the       *)
(* JavaScript string methods the scanner uses are computed on it.          *)
(***************************************************************************)

UPPER == <<"A","B","C","D","E","F","G","H","I","J","K","L","M",
           "N","O","P","Q","R","S","T","U","V","W","X","Y","Z">>

LOWER == <<"a","b","c","d","e","f","g","h","i","j","k","l","m",
           "n","o","p","q","r","s","t","u","v","w","x","y","z">>

\* The characters String.prototype.trim removes (those the model's texts use).
WHITESPACE == {" ", "\n", "\t"}

Min(a, b) == IF a < b THEN a ELSE b

SetMin(S) == CHOOSE x \in S : \A y \in S : x <= y

SetMax(S) == CHOOSE x \in S : \A y \in S : y <= x

\* c.toLowerCase() of one character.
LowerChar(c) ==
    IF \E k \in DOMAIN UPPER : UPPER[k] = c
    THEN LOWER[CHOOSE k \in DOMAIN UPPER : UPPER[k] = c]
    ELSE c

\* s.toLowerCase()
ToLowerCase(s) == [i \in 1..Len(s) |-> LowerChar(s[i])]

\* s.substring(from, to) for 0 <= from <= to (0-based, end exclusive,
\* clamped to the length).
Substring(s, from, to) == SubSeq(s, Min(from, Len(s)) + 1, Min(to, Len(s)))

\* s.trim()
Trim(s) ==
    LET keep == {i \in 1..Len(s) : s[i] \notin WHITESPACE}
    IN  IF keep = {} THEN <<>> ELSE SubSeq(s, SetMin(keep), SetMax(keep))

\* Whether sub occurs in s at (1-based) position i.
MatchAt(s, sub, i) == \A k \in 1..Len(sub) : s[i + k - 1] = sub[k]

\* s.indexOf(sub) + 1: the first position at which sub occurs, 0 if none.
IndexOf(s, sub) ==
    LET at == {i \in 1..(Len(s) - Len(sub) + 1) : MatchAt(s, sub, i)}
    IN  IF at = {} THEN 0 ELSE SetMin(at)

\* s.includes(sub); the empty string is included in every string.
Includes(s, sub) == IndexOf(s, sub) # 0

RECURSIVE Split(_, _)
\* s.split(sep) for a non-empty separator.
Split(s, sep) ==
    LET i == IndexOf(s, sep)
    IN  IF i = 0 THEN <<s>>
        ELSE <<SubSeq(s, 1, i - 1)>> \o Split(SubSeq(s, i + Len(sep), Len(s)), sep)

\* arr.filter(P) on the indices kept, in order.
RECURSIVE FilterSeq(_, _)
FilterSeq(arr, keep) ==
    IF arr = <<>> THEN <<>>
    ELSE (IF keep[1] THEN <<arr[1]>> ELSE <<>>)
         \o FilterSeq(Tail(arr), Tail(keep))

RECURSIVE Concat(_)
\* The concatenation of a sequence of strings.
Concat(parts) == IF parts = <<>> THEN <<>> ELSE parts[1] \o Concat(Tail(parts))

RECURSIVE Join(_, _)
\* parts.join(sep)
Join(parts, sep) ==
    IF parts = <<>> THEN <<>>
    ELSE IF Len(parts) = 1 THEN parts[1]
    ELSE parts[1] \o sep \o Join(Tail(parts), sep)

\* c repeated n times.
Rep(c, n) == [i \in 1..n |-> c]

(***************************************************************************)
(* Person scanner: _describePersons and scanPersonsInPhotos                *)
(***************************************************************************)

\* server.js 68
MAX_PERSONS == 3

\* server.js 134, 136, 137: the length a description is compared with.
MIN_DESC_LEN == 20

\* server.js 100-101: the prefix of a description the dedup compares.
DEDUP_PREFIX == 60

\* server.js 103: overlap > 5 makes a duplicate.
DEDUP_OVERLAP == 5

\* server.js 110: the pacing delay between photos, in ms.
SCAN_PACING_MS == 1500

\* server.js 128, 136: '---PERSON---'
DELIMITER == <<"-","-","-","P","E","R","S","O","N","-","-","-">>

\* server.js 119, 134: 'NO_PERSON'
NO_PERSON == <<"N","O","_","P","E","R","S","O","N">>

SPACE == <<" ">>

TooShort_30(text) == Len(text) < MIN_DESC_LEN + 10

\* server.js 134: text.length < 20
TooShort(text) == Len(text) < MIN_DESC_LEN

LongEnough_ge(frag) == Len(frag) >= MIN_DESC_LEN

\* server.js 136: s.length > 20
LongEnough(frag) == Len(frag) > MIN_DESC_LEN

\* server.js 131-142: the descriptions _describePersons returns for the
\* outcome of its callGemini call: a thrown error gives [], a response is
\* trimmed, refused when it holds the sentinel or is too short, split on
\* the delimiter, its fragments trimmed and filtered; a response with no
\* fragment left that is itself long enough is one description.
DescribePersons(outcome) ==
    IF outcome.kind = "error" THEN <<>>
    ELSE LET text    == Trim(outcome.text)
             frags   == Split(text, DELIMITER)
             trimmed == [i \in 1..Len(frags) |-> Trim(frags[i])]
             found == FilterSeq(trimmed, [i \in 1..Len(trimmed) |-> LongEnough(trimmed[i])])
         IN  IF Includes(text, NO_PERSON) \/ TooShort(text) THEN <<>>
             ELSE IF Len(found) = 0 /\ Len(text) > MIN_DESC_LEN THEN <<text>>
             ELSE found

Overlap_swapped(existing, d) ==
    LET a == ToLowerCase(Substring(existing, 0, DEDUP_PREFIX))
        b == ToLowerCase(Substring(d, 0, DEDUP_PREFIX))
        w == Split(b, SPACE)
    IN  Cardinality({i \in 1..Len(w) : Includes(a, w[i])})

\* server.js 100-102: the number of space-separated tokens of the existing
\* description's prefix that occur in the new description's prefix.
Overlap(existing, d) ==
    LET a == ToLowerCase(Substring(existing, 0, DEDUP_PREFIX))
        b == ToLowerCase(Substring(d, 0, DEDUP_PREFIX))
        w == Split(a, SPACE)
    IN  Cardinality({i \in 1..Len(w) : Includes(b, w[i])})

IsDuplicate_otherPhotos(roster, d) ==
    \E k \in 1..Len(roster) :
        /\ roster[k].photoIndex # validPhotos[scan_k]
        /\ Overlap(roster[k].description, d) > DEDUP_OVERLAP

\* server.js 99-104: allPersons.some(existing => overlap > 5)
IsDuplicate(roster, d) ==
    \E k \in 1..Len(roster) : Overlap(roster[k].description, d) > DEDUP_OVERLAP

AtCap_above(roster) == Len(roster) > MAX_PERSONS

\* server.js 93, 97: allPersons.length >= MAX_PERSONS
AtCap(roster) == Len(roster) >= MAX_PERSONS

\* A roster entry (server.js 87, 106); label n stands for `person${n}`.
Person(photoIndex, label, d) ==
    [photoIndex |-> photoIndex, photoPath |-> imagePaths[photoIndex + 1].path,
     personLabel |-> label, description |-> d]

\* server.js 87: desc.slice(0, MAX_PERSONS)
SliceMax(desc) == SubSeq(desc, 1, Min(MAX_PERSONS, Len(desc)))

\* Events of scan_trace.
EvDescribe(photo) ==
    [ev |-> "describe", photo |-> photo, ms |-> 0, d |-> <<>>, dropped |-> FALSE, n |-> 0]

EvMerge(photo, d, dropped, n) ==
    [ev |-> "merge", photo |-> photo, ms |-> 0, d |-> d, dropped |-> dropped, n |-> n]

EvSleep(ms) ==
    [ev |-> "sleep", photo |-> 0, ms |-> ms, d |-> <<>>, dropped |-> FALSE, n |-> 0]

\* server.js 72-79: the 0-based indices of the photos whose file exists.
ValidPhotos(paths) ==
    LET idx == [i \in 1..Len(paths) |-> i - 1]
    IN  FilterSeq(idx, [i \in 1..Len(paths) |-> paths[i].exists])

\* The most photos a scan is given.
MaxPhotos == 3

\* Descriptions the model service may produce, each longer than 20
\* characters: six one-letter tokens and a long one; one long token made of
\* the same letters; the six tokens in upper case; five of the six tokens;
\* the six tokens after the 60th character; tokens separated by two spaces
\* (six empty tokens); a token sharing nothing.
D_abcdef == Join(<<<<"a">>, <<"b">>, <<"c">>, <<"d">>, <<"e">>, <<"f">>, Rep("g", 12)>>, SPACE)

D_long == Concat(<<<<"a","b","c","d","e","f">>, <<"a","b","c","d","e","f">>,
                   <<"a","b","c","d","e","f">>, <<"a","b","c","d","e","f">>>>)

D_upper == Join(<<<<"A">>, <<"B">>, <<"C">>, <<"D">>, <<"E">>, <<"F">>, Rep("k", 12)>>, SPACE)

D_five == Join(<<<<"a">>, <<"b">>, <<"c">>, <<"d">>, <<"e">>, Rep("m", 14)>>, SPACE)

D_late == Join(<<Rep("n", 58), <<"a">>, <<"b">>, <<"c">>, <<"d">>, <<"e">>, <<"f">>>>, SPACE)

D_gaps == Join(<<<<"s">>, <<"s">>, <<"s">>, <<"s">>, <<"s">>, <<"s">>, <<"s">>>>, <<" ", " ">>)
          \o SPACE \o Rep("s", 4)

D_other == Rep("h", 24)

Descriptions == {D_abcdef, D_long, D_upper, D_five, D_late, D_gaps, D_other}

\* Response texts of the model service: every description alone (no
\* delimiter); the sentinel alone and inside a longer reply; replies of 20
\* and 21 characters; a short reply padded with whitespace; an empty (or
\* missing) text; replies of two and of four delimited descriptions;
\* a reply with an empty fragment and a fragment of exactly 20 characters
\* around one description; a reply of short fragments only.
Texts ==
    Descriptions \cup
    { NO_PERSON,
      NO_PERSON \o SPACE \o Rep("v", 20),
      Rep("t", 20),
      Rep("t", 21),
      <<" ", " ">> \o Rep("t", 19) \o <<"\n", "\n">>,
      <<>>,
      Join(<<D_abcdef, D_upper>>, DELIMITER),
      Join(<<D_abcdef, D_other, D_five, D_long>>, <<"\n">> \o DELIMITER \o <<"\n">>),
      Join(<<<<"\n">>, D_gaps, Rep("t", 20)>>, DELIMITER),
      Join(<<<<"a", "b">>, <<"c", "d">>, <<"e", "f">>>>, DELIMITER) }

\* server.js 132, 139: what the await of callGemini gives _describePersons:
\* a response with a text, or the error callGemini throws.
DescribeOutcomes ==
    {[kind |-> "response", text |-> t] : t \in Texts}
    \cup {[kind |-> "error", text |-> <<>>]}

\* The input lists: up to MaxPhotos paths, each to a file that exists or not.
ImagePathLists ==
    UNION { {[i \in 1..n |-> [path |-> i, exists |-> e[i]]] : e \in [1..n -> BOOLEAN]}
            : n \in 0..MaxPhotos }

\* No call of _describePersons has resolved yet.
NoOutcome == [kind |-> "none", text |-> <<>>]

\* server.js 113 (and 80, 86, 87): scanPersonsInPhotos returns roster.
ScanReturn(roster, trace) ==
    /\ scan_pc' = "returned"
    /\ scan_ret' = roster
    /\ scan_trace' = trace
    /\ scan_desc' = <<>>

\* server.js 92-94: the top of iteration k of the multi-photo loop: the
\* loop ends after the last photo or at the cap, otherwise photo k is sent
\* to _describePersons.
LoopTop(photos, k, roster, trace) ==
    IF k > Len(photos) \/ AtCap(roster)
    THEN /\ ScanReturn(roster, trace)
         /\ scan_k' = k
    ELSE /\ scan_pc' = "multi_call"
         /\ scan_k' = k
         /\ scan_trace' = Append(trace, EvDescribe(photos[k]))
         /\ scan_desc' = <<>>
         /\ UNCHANGED scan_ret

\* server.js 67-85 and 91-94: the photos are read; no photo found returns
\* [], one photo takes the single-photo path, more start the merge loop.
ScanEnter ==
    /\ scan_pc = "start"
    /\ validPhotos' = ValidPhotos(imagePaths)
    /\ allPersons' = <<>>
    /\ scan_res' = NoOutcome
    /\ IF Len(ValidPhotos(imagePaths)) = 0
       THEN /\ ScanReturn(<<>>, <<>>)
            /\ UNCHANGED scan_k
       ELSE IF Len(ValidPhotos(imagePaths)) = 1
       THEN /\ scan_pc' = "single_call"
            /\ scan_trace' = <<EvDescribe(ValidPhotos(imagePaths)[1])>>
            /\ UNCHANGED <<scan_k, scan_desc, scan_ret>>
       ELSE LoopTop(ValidPhotos(imagePaths), 1, <<>>, <<>>)
    /\ UNCHANGED imagePaths
    /\ UNCHANGED notScanVars

DescribeRejects_onError(outcome) == outcome.kind = "error"

\* server.js 131, 139-142: the whole body of _describePersons is in a try
\* whose catch returns []: no outcome of callGemini makes it reject.
DescribeRejects(outcome) == FALSE

\* server.js 85-87: the single photo's descriptions, capped and labelled.
SingleDescribed ==
    /\ scan_pc = "single_call"
    /\ \E o \in DescribeOutcomes :
         LET desc == DescribePersons(o)
             kept == SliceMax(desc)
             p    == validPhotos[1]
         IN  /\ scan_res' = o
             /\ IF DescribeRejects(o)
                THEN /\ scan_pc' = "thrown"
                     /\ UNCHANGED <<scan_trace, scan_desc, scan_ret>>
                ELSE ScanReturn([i \in 1..Len(kept) |-> Person(p, i, kept[i])], scan_trace)
    /\ UNCHANGED <<imagePaths, validPhotos, scan_k, allPersons>>
    /\ UNCHANGED notScanVars

\* server.js 94-95: the descriptions of photo k arrive; with none the
\* iteration is left by continue, which skips the pacing sleep.
MultiDescribed ==
    /\ scan_pc = "multi_call"
    /\ \E o \in DescribeOutcomes :
         LET desc == DescribePersons(o)
         IN  /\ scan_res' = o
             /\ IF DescribeRejects(o)
                THEN /\ scan_pc' = "thrown"
                     /\ UNCHANGED <<scan_k, scan_trace, scan_desc, scan_ret>>
                ELSE IF Len(desc) = 0
                THEN LoopTop(validPhotos, scan_k + 1, allPersons, scan_trace)
                ELSE /\ scan_pc' = "multi_merge"
                     /\ scan_desc' = desc
                     /\ UNCHANGED <<scan_k, scan_trace, scan_ret>>
    /\ UNCHANGED <<imagePaths, validPhotos, allPersons>>
    /\ UNCHANGED notScanVars

\* server.js 96-108: one iteration of the inner loop: below the cap, the
\* next description is pushed unless it duplicates an accepted one.
MultiMergeOne ==
    /\ scan_pc = "multi_merge"
    /\ scan_desc # <<>>
    /\ ~AtCap(allPersons)
    /\ LET d   == Head(scan_desc)
           p   == validPhotos[scan_k]
           dup == IsDuplicate(allPersons, d)
       IN  /\ allPersons' = IF dup THEN allPersons
                            ELSE Append(allPersons, Person(p, Len(allPersons) + 1, d))
           /\ scan_trace' = Append(scan_trace, EvMerge(p, d, dup, Len(allPersons)))
    /\ scan_desc' = Tail(scan_desc)
    /\ UNCHANGED <<imagePaths, scan_pc, validPhotos, scan_k, scan_res, scan_ret>>
    /\ UNCHANGED notScanVars

\* server.js 96-97 and 110: the inner loop ends (no description left, or
\* break at the cap); unless the photo is the last, the pacing sleep starts.
MultiMergeEnd ==
    /\ scan_pc = "multi_merge"
    /\ scan_desc = <<>> \/ AtCap(allPersons)
    /\ IF scan_k < Len(validPhotos)
       THEN /\ scan_pc' = "multi_sleep"
            /\ scan_desc' = <<>>
            /\ UNCHANGED <<scan_k, scan_trace, scan_ret>>
       ELSE LoopTop(validPhotos, scan_k + 1, allPersons, scan_trace)
    /\ UNCHANGED <<imagePaths, validPhotos, scan_res, allPersons>>
    /\ UNCHANGED notScanVars

\* server.js 110 and 92-94: the pacing sleep elapses and the next
\* iteration starts.
MultiSleepElapsed ==
    /\ scan_pc = "multi_sleep"
    /\ LoopTop(validPhotos, scan_k + 1, allPersons, Append(scan_trace, EvSleep(SCAN_PACING_MS)))
    /\ UNCHANGED <<imagePaths, validPhotos, scan_res, allPersons>>
    /\ UNCHANGED notScanVars

ScanIdle ==
    /\ imagePaths = <<>>
    /\ scan_pc = "idle"
    /\ validPhotos = <<>>
    /\ scan_k = 0
    /\ scan_res = NoOutcome
    /\ scan_desc = <<>>
    /\ allPersons = <<>>
    /\ scan_trace = <<>>
    /\ scan_ret = <<>>

\* A call scanPersonsInPhotos(imagePaths) about to run.
ScanCalled ==
    /\ imagePaths \in ImagePathLists
    /\ scan_pc = "start"
    /\ validPhotos = <<>>
    /\ scan_k = 0
    /\ scan_res = NoOutcome
    /\ scan_desc = <<>>
    /\ allPersons = <<>>
    /\ scan_trace = <<>>
    /\ scan_ret = <<>>

NextScan ==
    \/ ScanEnter
    \/ SingleDescribed
    \/ MultiDescribed
    \/ MultiMergeOne
    \/ MultiMergeEnd
    \/ MultiSleepElapsed

(***************************************************************************)
(* Chibi synthesizer: generateSingleChibi                                  *)
(***************************************************************************)

\* server.js 156
MAX_RETRIES == 2

\* server.js 316: the height every segmented image is resized to, in px.
OUTPUT_HEIGHT == 800

\* server.js 204: the least size of an accepted image, in bytes.
MIN_IMAGE_BYTES == 5000

\* server.js 220: the extra sleep after a rate-limited request, in ms.
RATE_LIMIT_SLEEP_MS == 4000

\* server.js 222: the sleep between two attempts, in ms.
RETRY_SLEEP_MS == 3000

\* generateSingleChibi returned null (server.js 160, 224).
NullPath == [recordId |-> <<>>, personIndex |-> 0]

\* server.js 209, 213: `/uploads/chibi-${recordId}-${personIndex}.png`
ChibiPath(rid, personIndex) == [recordId |-> rid, personIndex |-> personIndex]

\* The parts of a response: a text part, or inline image data of some
\* decoded size (0: an inlineData part with empty data) picturing an image
\* of some height in pixels.
TextPart == [kind |-> "text", bytes |-> 0, height |-> 0]

ImagePart(bytes, height) == [kind |-> "image", bytes |-> bytes, height |-> height]

\* The part lists a response may carry.
PartLists ==
    { <<>>,
      <<TextPart>>,
      <<ImagePart(MIN_IMAGE_BYTES - 1, 1024)>>,
      <<ImagePart(0, 0), TextPart>>,
      <<ImagePart(MIN_IMAGE_BYTES, 1024), ImagePart(MIN_IMAGE_BYTES + 2, 64)>>,
      <<TextPart, ImagePart(MIN_IMAGE_BYTES - 1, 64),
        ImagePart(MIN_IMAGE_BYTES + 1, OUTPUT_HEIGHT)>> }

\* server.js 187-197, 218: what the await of generateContent gives the
\* synthesizer: an error with a status (0: none), a response without
\* candidates, or a response with parts.
SynthOutcomes ==
    {[kind |-> "error", status |-> st, parts |-> <<>>] : st \in ErrStatuses}
    \cup {[kind |-> "nocandidates", status |-> 0, parts |-> <<>>]}
    \cup {[kind |-> "parts", status |-> 0, parts |-> ps] : ps \in PartLists}

Accepted_any(part) == part.kind = "image" /\ part.bytes > 0

\* server.js 202-204: the part holds inline data of at least 5000 bytes.
Accepted(part) ==
    /\ part.kind = "image"
    /\ part.bytes > 0
    /\ ~(part.bytes < MIN_IMAGE_BYTES)

\* server.js 201-215: the position of the first accepted part, 0 if none.
FirstAccepted(parts) ==
    LET ok == {i \in 1..Len(parts) : Accepted(parts[i])}
    IN  IF ok = {} THEN 0 ELSE SetMin(ok)

SynthCatches_rateLimitOnly(err) == err.status = RATE_LIMIT_STATUS

\* server.js 218: catch (e) takes every error thrown in the try block.
SynthCatches(err) == TRUE

NoRaw == [part |-> 0, bytes |-> 0, height |-> 0]

NoOut == [segmented |-> FALSE, height |-> 0]

WrittenHeight_raw(segmented, rawHeight) == rawHeight

\* server.js 207-211 and 315-323: the height of the image written: what
\* removeWhiteBackground returned, the resized image when it completed and
\* the bytes it was given when a step of it failed.
WrittenHeight(segmented, rawHeight) ==
    IF segmented THEN OUTPUT_HEIGHT ELSE rawHeight

\* server.js 146-153: CHIBI_POSES.length
POSE_COUNT == 6

\* The decimal digits; a record identifier is a string of them.
DIGITS == <<"0", "1", "2", "3", "4", "5", "6", "7", "8", "9">>

RECURSIVE ToStringDec(_)
\* server.js 611: Date.now().toString(): the decimal digits of n >= 0.
ToStringDec(n) ==
    IF n < 10 THEN <<DIGITS[n + 1]>>
    ELSE ToStringDec(n \div 10) \o <<DIGITS[(n % 10) + 1]>>

\* A JavaScript number: NaN or an integer value.
JsNaN == [nan |-> TRUE, val |-> 0]

RECURSIVE DecValue(_)
\* The value of a string of decimal digits.
DecValue(s) ==
    LET DigitVal(c) == CHOOSE d \in 0..9 : DIGITS[d + 1] = c
    IN  IF s = <<>> THEN 0
        ELSE 10 * DecValue(SubSeq(s, 1, Len(s) - 1)) + DigitVal(s[Len(s)])

\* server.js 166: parseInt(recordId): the value of the longest prefix of
\* decimal digits, NaN when the string starts with no digit.
ParseInt(s) ==
    LET IsDigit(c) == \E d \in 0..9 : DIGITS[d + 1] = c
        n == SetMax({0} \cup {k \in 1..Len(s) : \A i \in 1..k : IsDigit(s[i])})
    IN  IF n = 0 THEN JsNaN ELSE [nan |-> FALSE, val |-> DecValue(SubSeq(s, 1, n))]

\* The % of JavaScript on integers: the sign of the result is the sign of
\* the dividend.
JsRem(a, b) == IF a >= 0 THEN a % b ELSE 0 - ((0 - a) % b)

PoseIdx_noOuterRem(personIndex, rid) ==
    LET p == ParseInt(rid)
    IN  IF p.nan THEN JsNaN
        ELSE [nan |-> FALSE, val |-> personIndex - 1 + JsRem(p.val, POSE_COUNT)]

\* server.js 166: (personIndex - 1 + parseInt(recordId) % CHIBI_POSES.length)
\* % CHIBI_POSES.length; NaN when parseInt gives NaN.
PoseIdx(personIndex, rid) ==
    LET p == ParseInt(rid)
    IN  IF p.nan THEN JsNaN
        ELSE [nan |-> FALSE,
              val |-> JsRem(personIndex - 1 + JsRem(p.val, POSE_COUNT), POSE_COUNT)]

\* server.js 64, 188: the one model every request of the synthesizer names.
IMAGE_MODEL == "gemini-2.5-flash-image"

\* server.js 224 (and 160, 213): generateSingleChibi returns.
GenReturn(path) ==
    /\ gen_pc' = "returned"
    /\ gen_ret' = path

GenAttempt_oneMore(a, requests) ==
    /\ gen_attempt' = a
    /\ IF a <= MAX_RETRIES + 1
       THEN /\ gen_pc' = "request"
            /\ gen_requests' = requests + 1
            /\ UNCHANGED gen_ret
       ELSE /\ GenReturn(NullPath)
            /\ gen_requests' = requests

GenAttempt_perTier(a, requests) ==
    /\ gen_attempt' = a
    /\ IF a <= MAX_RETRIES
       THEN /\ gen_pc' = "request"
            /\ gen_requests' = requests + Len(MODELS)
            /\ UNCHANGED gen_ret
       ELSE /\ GenReturn(NullPath)
            /\ gen_requests' = requests

\* server.js 184-194: attempt a of the loop starts, if a <= MAX_RETRIES,
\* with a generateContent request; otherwise the loop is over and the call
\* returns null.
GenAttempt(a, requests) ==
    /\ gen_attempt' = a
    /\ IF a <= MAX_RETRIES
       THEN /\ gen_pc' = "request"
            /\ gen_requests' = requests + 1
            /\ UNCHANGED gen_ret
       ELSE /\ GenReturn(NullPath)
            /\ gen_requests' = requests

\* server.js 222: the end of a failed attempt: a 3 s sleep unless the
\* attempt is the last.
GenAttemptFailed ==
    IF gen_attempt < MAX_RETRIES
    THEN /\ gen_pc' = "sleep3"
         /\ UNCHANGED <<gen_attempt, gen_requests, gen_ret>>
    ELSE GenAttempt(gen_attempt + 1, gen_requests)

\* server.js 155-187: the call generateSingleChibi(photoPath, description,
\* recordId, personIndex): null when the photo is missing, otherwise the
\* first request.
GenCall(person, rid, personIndex, photoExists) ==
    /\ gen_args' = [photoPath |-> person.photoPath, recordId |-> rid,
                    personIndex |-> personIndex, poseIdx |-> PoseIdx(personIndex, rid)]
    /\ gen_last' = "none"
    /\ gen_gap' = 0
    /\ gen_raw' = NoRaw
    /\ gen_out' = NoOut
    /\ IF ~photoExists
       THEN /\ GenReturn(NullPath)
            /\ gen_attempt' = 0
            /\ gen_requests' = 0
       ELSE GenAttempt(0, 0)

\* server.js 187-222: the request of the attempt settles. An error is
\* caught (a rate-limited one sleeps 4 s first); a response without
\* candidates leaves the iteration by continue; the first accepted part
\* goes to removeWhiteBackground; a response with no accepted part fails.
GenResponse ==
    /\ gen_pc = "request"
    /\ gen_gap' = 0
    /\ \E o \in SynthOutcomes :
         IF o.kind = "error"
         THEN /\ gen_last' = IF o.status = RATE_LIMIT_STATUS THEN "error429" ELSE "error"
              /\ UNCHANGED gen_raw
              /\ IF ~SynthCatches(o)
                 THEN /\ gen_pc' = "thrown"
                      /\ UNCHANGED <<gen_attempt, gen_requests, gen_ret>>
                 ELSE IF o.status = RATE_LIMIT_STATUS
                 THEN /\ gen_pc' = "sleep429"
                      /\ UNCHANGED <<gen_attempt, gen_requests, gen_ret>>
                 ELSE GenAttemptFailed
         ELSE IF o.kind = "nocandidates"
         THEN /\ gen_last' = "nocandidates"
              /\ UNCHANGED gen_raw
              /\ GenAttempt(gen_attempt + 1, gen_requests)
         ELSE IF FirstAccepted(o.parts) # 0
         THEN /\ gen_last' = "accepted"
              /\ gen_raw' = [part |-> FirstAccepted(o.parts),
                             bytes |-> o.parts[FirstAccepted(o.parts)].bytes,
                             height |-> o.parts[FirstAccepted(o.parts)].height]
              /\ gen_pc' = "segment"
              /\ UNCHANGED <<gen_attempt, gen_requests, gen_ret>>
         ELSE /\ gen_last' = "noimage"
              /\ UNCHANGED gen_raw
              /\ GenAttemptFailed
    /\ UNCHANGED <<gen_args, gen_out, files>>
    /\ UNCHANGED notGenVars

\* server.js 207-213 and 218-222: removeWhiteBackground resolves (it never
\* rejects) with the segmented or the original bytes, and the file is
\* written and its path returned; a write that throws is caught like a
\* failed request.
GenSegmented ==
    /\ gen_pc = "segment"
    /\ \E segmented \in BOOLEAN, written \in BOOLEAN :
         IF written
         THEN /\ files' = files \cup {ChibiPath(gen_args.recordId, gen_args.personIndex)}
              /\ gen_out' = [segmented |-> segmented,
                             height |-> WrittenHeight(segmented, gen_raw.height)]
              /\ GenReturn(ChibiPath(gen_args.recordId, gen_args.personIndex))
              /\ UNCHANGED <<gen_attempt, gen_requests, gen_last>>
         ELSE /\ gen_last' = "writefail"
              /\ GenAttemptFailed
              /\ UNCHANGED <<files, gen_out>>
    /\ UNCHANGED <<gen_args, gen_gap, gen_raw>>
    /\ UNCHANGED notGenVars

\* server.js 220-222: the 4 s sleep after a rate-limited request elapses.
GenRateLimitSleepElapsed ==
    /\ gen_pc = "sleep429"
    /\ gen_gap' = gen_gap + RATE_LIMIT_SLEEP_MS
    /\ GenAttemptFailed
    /\ UNCHANGED <<gen_args, gen_last, gen_raw, gen_out, files>>
    /\ UNCHANGED notGenVars

\* server.js 222 and 184: the 3 s sleep elapses and the next attempt starts.
GenRetrySleepElapsed ==
    /\ gen_pc = "sleep3"
    /\ gen_gap' = gen_gap + RETRY_SLEEP_MS
    /\ GenAttempt(gen_attempt + 1, gen_requests)
    /\ UNCHANGED <<gen_args, gen_last, gen_raw, gen_out, files>>
    /\ UNCHANGED notGenVars

\* The largest record identifier and personIndex a call is given.
MaxRecordId == 13
MaxPersonIndex == 7

\* server.js 155: generateSingleChibi(photoPath, description, recordId,
\* personIndex) is entered with the arguments it was called with.
GenEntered ==
    /\ gen_pc = "called"
    /\ \E photoExists \in BOOLEAN :
         GenCall([photoPath |-> gen_args.photoPath], gen_args.recordId,
                 gen_args.personIndex, photoExists)
    /\ UNCHANGED files
    /\ UNCHANGED notGenVars

\* A call generateSingleChibi(photoPath, description, recordId, personIndex)
\* about to run, for a record identifier made by Date.now().toString().
GenCalled ==
    /\ gen_pc = "called"
    /\ gen_args \in {[photoPath |-> 1, recordId |-> ToStringDec(n), personIndex |-> k,
                      poseIdx |-> JsNaN] : n \in 0..MaxRecordId, k \in 1..MaxPersonIndex}
    /\ gen_attempt = 0
    /\ gen_requests = 0
    /\ gen_last = "none"
    /\ gen_gap = 0
    /\ gen_raw = NoRaw
    /\ gen_out = NoOut
    /\ gen_ret = NullPath
    /\ files = {}

NextSynth ==
    \/ GenEntered
    \/ GenResponse
    \/ GenSegmented
    \/ GenRateLimitSleepElapsed
    \/ GenRetrySleepElapsed

GenIdle ==
    /\ gen_pc = "idle"
    /\ gen_args = [photoPath |-> 0, recordId |-> <<>>, personIndex |-> 0, poseIdx |-> JsNaN]
    /\ gen_attempt = 0
    /\ gen_requests = 0
    /\ gen_last = "none"
    /\ gen_gap = 0
    /\ gen_raw = NoRaw
    /\ gen_out = NoOut
    /\ gen_ret = NullPath
    /\ files = {}

(***************************************************************************)
(* Background segmenter: removeWhiteBackground                             *)
(***************************************************************************)

\* server.js 235: the threshold on the Euclidean distance from pure white.
WHITE_THRESHOLD == 42

\* server.js 242: the three values of the mask.
UNVISITED == 0
BACKGROUND == 1
FOREGROUND == 2

\* server.js 285 and 305: the alpha of a background pixel and of a
\* background pixel on the edge of the subject.
TRANSPARENT == 0
EDGE_ALPHA == 60

\* The most pixels an image tried has: every width and height within it.
MaxPixels == 9

Colour(r, g, b) == [r |-> r, g |-> g, b |-> b]

\* Colours at distance 0, 41, 42 and 441.67 from pure white.
WHITE == Colour(255, 255, 255)
NEAR_WHITE == Colour(255, 255, 214)
OFF_WHITE == Colour(255, 255, 213)
BLACK == Colour(0, 0, 0)

\* The light and the dark colour of an image.
Palettes == { <<WHITE, BLACK>>, <<NEAR_WHITE, OFF_WHITE>> }

\* The alpha of the decoded pixels: ensureAlpha (server.js 229) adds an
\* opaque channel when the input has none and keeps the input's otherwise.
InAlphas == {255, 128}

\* server.js 237-238: the squared distance of a pixel from pure white.
Dist2(px) ==
    (255 - px.r) * (255 - px.r) + (255 - px.g) * (255 - px.g) + (255 - px.b) * (255 - px.b)

IsWhitish_le(px) == Dist2(px) <= WHITE_THRESHOLD * WHITE_THRESHOLD

\* server.js 236-240: isWhitish. The sum of squares is an integer and the
\* square root is monotone and exact at 42 * 42, so dist < 42 exactly when
\* the sum is below 42 * 42.
IsWhitish(px) == Dist2(px) < WHITE_THRESHOLD * WHITE_THRESHOLD

\* The images of one size: every placement of the light colour, in each
\* palette and with each alpha.
ImagesOf(w, h) ==
    { [width |-> w, height |-> h,
       data |-> [pos \in 0..(w * h - 1) |->
                   [r |-> (IF pos \in light THEN pal[1] ELSE pal[2]).r,
                    g |-> (IF pos \in light THEN pal[1] ELSE pal[2]).g,
                    b |-> (IF pos \in light THEN pal[1] ELSE pal[2]).b,
                    a |-> a]]] :
      light \in SUBSET (0..(w * h - 1)), pal \in Palettes, a \in InAlphas }

Images ==
    UNION { ImagesOf(d[1], d[2]) :
            d \in {e \in (1..MaxPixels) \X (1..MaxPixels) : e[1] * e[2] <= MaxPixels} }

NoImage == [width |-> 0, height |-> 0, data |-> <<>>]

\* server.js 245-256: the queue before the fill: the top and bottom rows,
\* pixel by pixel, then the left and right columns.
Seeds(w, h) ==
    [i \in 1..(2 * w) |->
        IF i % 2 = 1 THEN (i - 1) \div 2 ELSE (h - 1) * w + (i - 2) \div 2]
    \o
    [i \in 1..(2 * h) |->
        IF i % 2 = 1 THEN ((i - 1) \div 2) * w ELSE ((i - 2) \div 2) * w + w - 1]

Neighbours_diag(pos, w, h) ==
    (IF pos % w > 0 THEN <<pos - 1>> ELSE <<>>)
    \o (IF pos % w < w - 1 THEN <<pos + 1>> ELSE <<>>)
    \o (IF pos \div w > 0 THEN <<pos - w>> ELSE <<>>)
    \o (IF pos \div w < h - 1 THEN <<pos + w>> ELSE <<>>)
    \o (IF pos % w < w - 1 /\ pos \div w < h - 1 THEN <<pos + w + 1>> ELSE <<>>)

\* server.js 271-276 (and 296-301): the 4-neighbours of a position inside
\* the image: left, right, up, down.
Neighbours(pos, w, h) ==
    (IF pos % w > 0 THEN <<pos - 1>> ELSE <<>>)
    \o (IF pos % w < w - 1 THEN <<pos + 1>> ELSE <<>>)
    \o (IF pos \div w > 0 THEN <<pos - w>> ELSE <<>>)
    \o (IF pos \div w < h - 1 THEN <<pos + w>> ELSE <<>>)

\* server.js 259-278: the loop of the fill from queue[head] on; gives the
\* mask and the queue when the loop ends.
RECURSIVE Flood(_, _, _, _)
Flood(img, mask, queue, head) ==
    IF head >= Len(queue)
    THEN [mask |-> mask, queue |-> queue]
    ELSE LET pos == queue[head + 1]
         IN  IF pos < 0 \/ pos >= img.width * img.height
             THEN Flood(img, mask, queue, head + 1)
             ELSE IF mask[pos] # UNVISITED
             THEN Flood(img, mask, queue, head + 1)
             ELSE IF ~IsWhitish(img.data[pos])
             THEN Flood(img, [mask EXCEPT ![pos] = FOREGROUND], queue, head + 1)
             ELSE LET marked == [mask EXCEPT ![pos] = BACKGROUND]
                  IN  Flood(img, marked,
                            queue \o SelectSeq(Neighbours(pos, img.width, img.height),
                                               LAMBDA n : marked[n] = UNVISITED),
                            head + 1)

ApplyAlpha_halve(data, mask) ==
    [pos \in DOMAIN data |->
        IF mask[pos] = BACKGROUND
        THEN [data[pos] EXCEPT !.a = data[pos].a \div 2]
        ELSE data[pos]]

\* server.js 281-290: background pixels become fully transparent.
ApplyAlpha(data, mask) ==
    [pos \in DOMAIN data |->
        IF mask[pos] = BACKGROUND THEN [data[pos] EXCEPT !.a = TRANSPARENT] ELSE data[pos]]

AntiAlias_imageEdge(data, mask, w, h) ==
    [pos \in DOMAIN data |->
        IF /\ mask[pos] = BACKGROUND
           /\ \/ Len(Neighbours(pos, w, h)) < 4
              \/ \E k \in DOMAIN Neighbours(pos, w, h) :
                   mask[Neighbours(pos, w, h)[k]] # BACKGROUND
        THEN [data[pos] EXCEPT !.a = EDGE_ALPHA]
        ELSE data[pos]]

\* server.js 293-307: a background pixel with a neighbour that is not
\* background gets the edge alpha.
AntiAlias(data, mask, w, h) ==
    [pos \in DOMAIN data |->
        IF /\ mask[pos] = BACKGROUND
           /\ \E k \in DOMAIN Neighbours(pos, w, h) :
                mask[Neighbours(pos, w, h)[k]] # BACKGROUND
        THEN [data[pos] EXCEPT !.a = EDGE_ALPHA]
        ELSE data[pos]]

\* Nothing returned yet.
RwbNoRet == [kind |-> "none", bytes |-> NoImage]

\* server.js 315-319: the resized PNG (its pixels are not modelled).
RwbResizedPng == [kind |-> "resized", bytes |-> NoImage]

RwbFailed_rethrow(step) ==
    /\ rwb_pc' = "thrown"
    /\ rwb_failed' = step
    /\ rwb_ret' = RwbNoRet

\* server.js 320-323: the catch: the bytes the call was given are returned.
RwbFailed(step) ==
    /\ rwb_pc' = "returned"
    /\ rwb_failed' = step
    /\ rwb_ret' = [kind |-> "input", bytes |-> imgBuffer]

\* server.js 229-310: the decode settles. When it gives the raw pixels the
\* fill, the alpha pass and the anti-aliasing pass run, and the trim is
\* awaited; when it rejects, or a pass throws, the input is returned.
RwbDecoded ==
    /\ rwb_pc = "decode"
    /\ \E outcome \in {"ok", "decode", "fill"} :
         IF outcome = "ok"
         THEN LET w == imgBuffer.width
                  h == imgBuffer.height
                  fill == Flood(imgBuffer, [pos \in 0..(w * h - 1) |-> UNVISITED],
                                Seeds(w, h), 0)
              IN  /\ rwb_mask' = fill.mask
                  /\ rwb_queue' = fill.queue
                  /\ rwb_data' = AntiAlias(ApplyAlpha(imgBuffer.data, fill.mask),
                                           fill.mask, w, h)
                  /\ rwb_pc' = "trim"
                  /\ UNCHANGED <<rwb_failed, rwb_ret>>
         ELSE /\ RwbFailed(outcome)
              /\ UNCHANGED <<rwb_mask, rwb_queue, rwb_data>>
    /\ UNCHANGED imgBuffer
    /\ UNCHANGED notFillVars

\* server.js 310-313: the encode and trim settles.
RwbTrimmed ==
    /\ rwb_pc = "trim"
    /\ \E ok \in BOOLEAN :
         IF ok
         THEN /\ rwb_pc' = "resize"
              /\ UNCHANGED <<rwb_failed, rwb_ret>>
         ELSE RwbFailed("trim")
    /\ UNCHANGED <<imgBuffer, rwb_mask, rwb_queue, rwb_data>>
    /\ UNCHANGED notFillVars

\* server.js 315-319: the resize settles and its result is returned.
RwbResized ==
    /\ rwb_pc = "resize"
    /\ \E ok \in BOOLEAN :
         IF ok
         THEN /\ rwb_pc' = "returned"
              /\ rwb_ret' = RwbResizedPng
              /\ UNCHANGED rwb_failed
         ELSE RwbFailed("resize")
    /\ UNCHANGED <<imgBuffer, rwb_mask, rwb_queue, rwb_data>>
    /\ UNCHANGED notFillVars

FillIdle ==
    /\ rwb_pc = "idle"
    /\ imgBuffer = NoImage
    /\ rwb_mask = <<>>
    /\ rwb_queue = <<>>
    /\ rwb_data = <<>>
    /\ rwb_failed = "none"
    /\ rwb_ret = RwbNoRet

\* A call removeWhiteBackground(imgBuffer) about to run.
FillCalled ==
    /\ rwb_pc = "decode"
    /\ imgBuffer \in Images
    /\ rwb_mask = <<>>
    /\ rwb_queue = <<>>
    /\ rwb_data = <<>>
    /\ rwb_failed = "none"
    /\ rwb_ret = RwbNoRet

NextFill ==
    \/ RwbDecoded
    \/ RwbTrimmed
    \/ RwbResized

(***************************************************************************)
(* Pipeline orchestrator: generateAllChibis                                *)
(***************************************************************************)

\* server.js 346: the pacing delay between two persons, in ms.
PERSON_PACING_MS == 3000

\* The most photos a pipeline run is given.
MaxPipelinePhotos == 2

\* Record identifiers (Date.now().toString(), server.js 611).
RecordIds == {<<"8">>}

PushResult_front(res, imgPath) ==
    IF imgPath # NullPath THEN <<imgPath>> \o res ELSE res

PushResult_twice(res, imgPath) == Append(Append(res, imgPath), imgPath)

\* server.js 344: if (imgPath) results.push(imgPath)
PushResult(res, imgPath) == IF imgPath # NullPath THEN Append(res, imgPath) ELSE res

PersonIndex_outputPosition(i, res) == Len(res) + 1

\* server.js 343: the personIndex passed for persons[i]: i + 1, whatever
\* the results collected so far.
PersonIndex(i, res) == i + 1

\* Events of all_trace: the call of the synthesizer for a person, its
\* resolution (with the path or null it gave, and whether it gave null
\* after using up all its attempts), and the pacing sleep after a person
\* (server.js 346: 3000 ms).
AllEv(ev, person, ret, exhausted) ==
    [ev |-> ev, person |-> person, ret |-> ret, exhausted |-> exhausted,
     ms |-> IF ev = "sleep" THEN PERSON_PACING_MS ELSE 0]

PaceAfter_always(i, n) == TRUE

\* server.js 346: if (i < persons.length - 1) the pacing sleep is taken.
PaceAfter(i, n) == i < n - 1

Settled_noAwait(pc) == pc # "idle"

\* server.js 331, 343: await: the caller goes on only once the promise of
\* the call has settled (the call has returned or thrown).
Settled(pc) == pc \in {"returned", "thrown"}

\* server.js 327-331: generateAllChibis calls the scanner.
GenerateAllChibisEnter ==
    /\ all_pc = "start"
    /\ scan_pc = "idle"
    /\ all_pc' = "scan"
    /\ scan_pc' = "start"
    /\ UNCHANGED <<imagePaths, validPhotos, scan_k, scan_res, scan_desc, allPersons,
                   scan_trace, scan_ret>>
    /\ UNCHANGED <<recordId, persons, all_i, results, all_trace, all_ret>>
    /\ UNCHANGED <<invokerVars, genVars, fillVars, serverVars, chat_session, chat_reqs>>

\* server.js 331-343: the scanner resolves and its roster is taken (the
\* scanner's own locals end with its call); an empty roster returns [],
\* otherwise the synthesizer is called for the first person.
ScanResolved ==
    /\ all_pc = "scan"
    /\ Settled(scan_pc)
    /\ persons' = scan_ret
    /\ results' = <<>>
    /\ all_i' = 0
    /\ IF Len(scan_ret) = 0
       THEN /\ all_pc' = "returned"
            /\ all_ret' = <<>>
            /\ UNCHANGED <<all_trace, genVars>>
       ELSE /\ all_pc' = "synth"
            /\ all_trace' = Append(all_trace, AllEv("call", 1, NullPath, FALSE))
            /\ \E photoExists \in BOOLEAN : GenCall(scan_ret[1], recordId, PersonIndex(0, <<>>), photoExists)
            /\ UNCHANGED <<all_ret, files>>
    /\ scan_pc' = "idle"
    /\ validPhotos' = <<>>
    /\ scan_k' = 0
    /\ scan_res' = NoOutcome
    /\ scan_desc' = <<>>
    /\ allPersons' = <<>>
    /\ scan_trace' = <<>>
    /\ scan_ret' = <<>>
    /\ UNCHANGED <<recordId, imagePaths>>
    /\ UNCHANGED <<invokerVars, fillVars, serverVars, chat_session, chat_reqs>>

\* server.js 340-343 and 349: i++ after person i; while i < persons.length
\* the synthesizer is called for the next person, otherwise the results
\* are returned.
AfterPerson(i, res, trace) ==
    IF i + 1 < Len(persons)
    THEN /\ all_pc' = "synth"
         /\ all_i' = i + 1
         /\ all_trace' = Append(trace, AllEv("call", i + 2, NullPath, FALSE))
         /\ \E photoExists \in BOOLEAN :
              GenCall(persons[i + 2], recordId, PersonIndex(i + 1, res), photoExists)
         /\ UNCHANGED <<all_ret, files>>
    ELSE /\ all_pc' = "returned"
         /\ all_ret' = res
         /\ all_trace' = trace
         /\ UNCHANGED <<all_i, genVars>>

\* server.js 343-349: the synthesizer resolves; a path is collected, and
\* either the pacing sleep starts or, after the last person, the results
\* are returned. A synthesizer that rejected would reject the pipeline.
SynthResolved ==
    /\ all_pc = "synth"
    /\ Settled(gen_pc)
    /\ IF gen_pc = "thrown"
       THEN /\ all_pc' = "thrown"
            /\ UNCHANGED <<results, all_trace, all_ret, all_i, genVars>>
       ELSE /\ results' = PushResult(results, gen_ret)
            /\ LET trace == Append(all_trace,
                                   AllEv("resolved", all_i + 1, gen_ret,
                                         gen_ret = NullPath /\ gen_requests = MAX_RETRIES + 1))
               IN  IF PaceAfter(all_i, Len(persons))
                   THEN /\ all_pc' = "pace"
                        /\ all_trace' = trace
                        /\ UNCHANGED <<all_i, all_ret, genVars>>
                   ELSE AfterPerson(all_i, PushResult(results, gen_ret), trace)
    /\ UNCHANGED <<recordId, persons>>
    /\ UNCHANGED <<invokerVars, scanVars, fillVars, serverVars, chat_session, chat_reqs>>

\* server.js 346 and 340-343: the pacing sleep elapses and the loop goes on.
PaceElapsed ==
    /\ all_pc = "pace"
    /\ AfterPerson(all_i, results,
                   Append(all_trace, AllEv("sleep", all_i + 1, NullPath, FALSE)))
    /\ UNCHANGED <<recordId, persons, results>>
    /\ UNCHANGED <<invokerVars, scanVars, fillVars, serverVars, chat_session, chat_reqs>>

AllIdle ==
    /\ all_pc = "idle"
    /\ recordId = <<>>
    /\ persons = <<>>
    /\ all_i = 0
    /\ results = <<>>
    /\ all_trace = <<>>
    /\ all_ret = <<>>

\* A call generateAllChibis(imagePaths, recordId) about to run.
AllCalled ==
    /\ imagePaths \in {l \in ImagePathLists : Len(l) <= MaxPipelinePhotos}
    /\ scan_pc = "idle"
    /\ validPhotos = <<>>
    /\ scan_k = 0
    /\ scan_res = NoOutcome
    /\ scan_desc = <<>>
    /\ allPersons = <<>>
    /\ scan_trace = <<>>
    /\ scan_ret = <<>>
    /\ all_pc = "start"
    /\ recordId \in RecordIds
    /\ persons = <<>>
    /\ all_i = 0
    /\ results = <<>>
    /\ all_trace = <<>>
    /\ all_ret = <<>>

NextPipeline ==
    \/ GenerateAllChibisEnter
    \/ NextScan
    \/ ScanResolved
    \/ GenResponse
    \/ GenSegmented
    \/ GenRateLimitSleepElapsed
    \/ GenRetrySleepElapsed
    \/ SynthResolved
    \/ PaceElapsed

(***************************************************************************)
(* The routes that start pipelines: POST /api/records and                  *)
(* POST /api/records/refresh-characters                                    *)
(***************************************************************************)

\* The most records posted, refresh requests made, ms the clock advances,
\* and persons a pipeline started by a route finds.
MaxPosts == 2
MaxRefreshes == 1
MaxClock == 1
MaxRunPersons == 1
MaxDeletes == 1

\* server.js 611, 628: a record as stored: its id, whether it has photos,
\* whether chibiImagePaths is set and non-empty, and whether characterStyles
\* is set and empty.
Record(id, imgs) == [id |-> id, imgs |-> imgs, chibi |-> FALSE, scenery |-> FALSE]

\* server.js 691, 655: records.find(r => r.id === id): the position of the
\* first record with the id, 0 if none.
FindRecord(records, id) ==
    IF \E k \in 1..Len(records) : records[k].id = id
    THEN SetMin({k \in 1..Len(records) : records[k].id = id})
    ELSE 0

\* The invocations whose promise has not resolved.
ActiveRuns(rs) == {j \in 1..Len(rs) : rs[j].pc \in {"scan", "synth"}}

\* server.js 327-331: a call generateAllChibis(imgs, id), which runs up to
\* the scanner's first await.
StartRun(rs, origin, handler, id) ==
    Append(rs, [origin |-> origin, handler |-> handler, id |-> id, pc |-> "scan",
                n |-> 0, next |-> 1, written |-> {}, paths |-> <<>>,
                overlaps |-> ActiveRuns(rs)])

\* server.js 713-718: the first record at or after position from that
\* refresh-characters does not skip, 0 if none.
NextEligible(snap, from) ==
    IF \E k \in from..Len(snap) : snap[k].imgs /\ ~snap[k].chibi /\ ~snap[k].scenery
    THEN SetMin({k \in from..Len(snap) :
                   snap[k].imgs /\ ~snap[k].chibi /\ ~snap[k].scenery})
    ELSE 0

\* Date.now() advances.
ClockTick ==
    /\ srv_now < MaxClock
    /\ srv_now' = srv_now + 1
    /\ UNCHANGED <<db, feat_pending, runs, refreshes, srv_deletes>>
    /\ UNCHANGED notServerVars

\* server.js 607-701: POST /api/records from the read of db.json on: the
\* record gets its id and is stored, and for a record with photos the
\* feature extraction and the pipeline are started in the background.
PostRecord ==
    /\ Len(db) + srv_deletes < MaxPosts
    /\ \E imgs \in BOOLEAN :
         /\ db' = Append(db, Record(srv_now, imgs))
         /\ feat_pending' = IF imgs THEN feat_pending \cup {srv_now} ELSE feat_pending
         /\ runs' = IF imgs THEN StartRun(runs, "post", 0, srv_now) ELSE runs
    /\ UNCHANGED <<srv_now, srv_deletes, refreshes>>
    /\ UNCHANGED notServerVars

\* server.js 800-814: DELETE /api/records/:id: db.json is read, the first
\* record with the id is removed and db.json is written; with no such
\* record the answer is 404 and nothing is written.
DeleteRecord ==
    /\ srv_deletes < MaxDeletes
    /\ \E id \in 0..MaxClock :
         LET idx == FindRecord(db, id)
         IN  IF idx = 0
             THEN UNCHANGED <<db, srv_deletes>>
             ELSE /\ db' = [k \in 1..(Len(db) - 1) |->
                              IF k < idx THEN db[k] ELSE db[k + 1]]
                  /\ srv_deletes' = srv_deletes + 1
    /\ UNCHANGED <<srv_now, feat_pending, runs, refreshes>>
    /\ UNCHANGED notServerVars

\* server.js 645-657: the feature extraction of a record writes
\* characterStyles back, a list of characters or the empty list (one that
\* fails writes nothing and stays pending here).
FeaturesExtracted ==
    /\ \E id \in feat_pending, outcome \in {"some", "empty"} :
         /\ feat_pending' = feat_pending \ {id}
         /\ db' = IF FindRecord(db, id) = 0
                  THEN db
                  ELSE [db EXCEPT ![FindRecord(db, id)].scenery = (outcome = "empty")]
    /\ UNCHANGED <<srv_now, srv_deletes, runs, refreshes>>
    /\ UNCHANGED notServerVars

\* server.js 331-335: the scanner of an invocation resolves with a roster
\* of n persons; with none the invocation resolves with [].
RunScanned ==
    /\ \E i \in 1..Len(runs), n \in 0..MaxRunPersons :
         /\ runs[i].pc = "scan"
         /\ runs' = [runs EXCEPT ![i].n = n,
                                 ![i].pc = IF n = 0 THEN "resolved" ELSE "synth"]
    /\ UNCHANGED <<srv_now, srv_deletes, db, feat_pending, refreshes>>
    /\ UNCHANGED notServerVars

\* server.js 343-349 and 209-213: the synthesis of the next person of an
\* invocation resolves: with a path, after the file chibi-{id}-{index}.png
\* was written, or with null; after the last person the invocation resolves.
RunSynthesized ==
    /\ \E i \in 1..Len(runs), ok \in BOOLEAN :
         /\ runs[i].pc = "synth"
         /\ runs' = [runs EXCEPT
                ![i].written = IF ok THEN @ \cup {ChibiPath(runs[i].id, runs[i].next)} ELSE @,
                ![i].paths = IF ok THEN Append(@, ChibiPath(runs[i].id, runs[i].next)) ELSE @,
                ![i].next = @ + 1,
                ![i].pc = IF runs[i].next = runs[i].n THEN "resolved" ELSE "synth"]
    /\ UNCHANGED <<srv_now, srv_deletes, db, feat_pending, refreshes>>
    /\ UNCHANGED notServerVars

\* server.js 688-699: the then of the pipeline POST /api/records started:
\* with a non-empty list db.json is read afresh, the record found by id
\* gets the paths, and db.json is written.
PostRunResolved ==
    /\ \E i \in 1..Len(runs) :
         /\ runs[i].pc = "resolved"
         /\ runs[i].origin = "post"
         /\ runs' = [runs EXCEPT ![i].pc = "done"]
         /\ db' = IF runs[i].paths # <<>> /\ FindRecord(db, runs[i].id) # 0
                  THEN [db EXCEPT ![FindRecord(db, runs[i].id)].chibi = TRUE]
                  ELSE db
    /\ UNCHANGED <<srv_now, srv_deletes, feat_pending, refreshes>>
    /\ UNCHANGED notServerVars

\* server.js 712-722 and 735-736: the loop of a refresh-characters request
\* from position from of its snapshot: the pipeline is called for the first
\* record not skipped; with none left the snapshot is written to db.json
\* and the request answered.
RefreshAdvance(h, snap, from) ==
    IF NextEligible(snap, from) = 0
    THEN /\ refreshes' = [refreshes EXCEPT ![h] =
                             [pc |-> "done", snap |-> snap, idx |-> Len(snap) + 1, run |-> 0]]
         /\ db' = snap
         /\ UNCHANGED runs
    ELSE /\ refreshes' = [refreshes EXCEPT ![h] =
                             [pc |-> "await", snap |-> snap,
                              idx |-> NextEligible(snap, from), run |-> Len(runs) + 1]]
         /\ runs' = StartRun(runs, "refresh", h, snap[NextEligible(snap, from)].id)
         /\ UNCHANGED db

\* server.js 708-722: a refresh-characters request arrives and reads
\* db.json once.
RefreshStart ==
    /\ Len(refreshes) < MaxRefreshes
    /\ LET h == Len(refreshes) + 1
       IN  IF NextEligible(db, 1) = 0
           THEN /\ refreshes' = Append(refreshes, [pc |-> "done", snap |-> db,
                                                   idx |-> Len(db) + 1, run |-> 0])
                /\ UNCHANGED <<db, runs>>
           ELSE /\ refreshes' = Append(refreshes, [pc |-> "await", snap |-> db,
                                                   idx |-> NextEligible(db, 1),
                                                   run |-> Len(runs) + 1])
                /\ runs' = StartRun(runs, "refresh", h, db[NextEligible(db, 1)].id)
                /\ UNCHANGED db
    /\ UNCHANGED <<srv_now, srv_deletes, feat_pending>>
    /\ UNCHANGED notServerVars

\* server.js 722-730: the pipeline a refresh request awaits resolves: a
\* non-empty list is put on the snapshot's record, and the 5 s sleep starts.
RefreshRunResolved ==
    /\ \E h \in 1..Len(refreshes) :
         /\ refreshes[h].pc = "await"
         /\ runs[refreshes[h].run].pc = "resolved"
         /\ runs' = [runs EXCEPT ![refreshes[h].run].pc = "done"]
         /\ refreshes' = [refreshes EXCEPT
                ![h].pc = "sleep",
                ![h].snap = IF runs[refreshes[h].run].paths # <<>>
                            THEN [@ EXCEPT ![refreshes[h].idx].chibi = TRUE]
                            ELSE @]
    /\ UNCHANGED <<srv_now, srv_deletes, db, feat_pending>>
    /\ UNCHANGED notServerVars

\* server.js 730 and 712-736: the 5 s sleep elapses and the loop goes on.
RefreshSleepElapsed ==
    /\ \E h \in 1..Len(refreshes) :
         /\ refreshes[h].pc = "sleep"
         /\ RefreshAdvance(h, refreshes[h].snap, refreshes[h].idx + 1)
    /\ UNCHANGED <<srv_now, srv_deletes, feat_pending>>
    /\ UNCHANGED notServerVars

ServerIdle ==
    /\ srv_now = 0
    /\ db = <<>>
    /\ feat_pending = {}
    /\ runs = <<>>
    /\ refreshes = <<>>
    /\ srv_deletes = 0

NextServer ==
    \/ ClockTick
    \/ PostRecord
    \/ DeleteRecord
    \/ FeaturesExtracted
    \/ RunScanned
    \/ RunSynthesized
    \/ PostRunResolved
    \/ RefreshStart
    \/ RefreshRunResolved
    \/ RefreshSleepElapsed

(***************************************************************************)
(* The chat session: POST /api/chat/start and POST /api/chat/message       *)
(* (server.js 904-992, 1072-1124)                                          *)
(***************************************************************************)

MaxMessages == 3

\* server.js 1087-1102, 951-968: what callGemini resolves with, and the
\* reply and the keywords the handler takes from it: a JSON text with a
\* reply and keywords, a plain text, which is the reply, and an empty text.
Responses ==
    { [text |-> "{reply,keywords}", reply |-> "reply", keywords |-> <<"k">>],
      [text |-> "plain", reply |-> "plain", keywords |-> <<>>],
      [text |-> "", reply |-> "", keywords |-> <<>>] }

\* server.js 1110-1117: the keywords merged, without one already there.
RECURSIVE MergeKeywords(_, _)
MergeKeywords(existing, incoming) ==
    IF incoming = <<>>
    THEN existing
    ELSE MergeKeywords(IF \E k \in 1..Len(existing) : existing[k] = Head(incoming)
                       THEN existing
                       ELSE Append(existing, Head(incoming)),
                       Tail(incoming))

\* server.js 904-992: POST /api/chat/start whose model call resolved: the
\* session is stored with the first exchange (one whose call throws stores
\* nothing).
ChatStart ==
    /\ ~chat_session.exists
    /\ \E resp \in Responses :
         chat_session' = [exists |-> TRUE,
                          history |-> <<[role |-> "user", text |-> "prompt"],
                                        [role |-> "model",
                                         text |-> IF resp.text # "" THEN resp.text
                                                  ELSE resp.reply]>>,
                          chatLog |-> <<[role |-> "ai", text |-> resp.reply]>>,
                          keywords |-> resp.keywords,
                          lastActive |-> srv_now]
    /\ UNCHANGED chat_reqs
    /\ UNCHANGED <<invokerVars, scanVars, genVars, allVars, fillVars, serverVars>>

\* server.js 1072-1087: POST /api/chat/message up to its await: the user
\* message is pushed on chatLog and on history, and callGemini is called
\* with the history.
MessageArrives ==
    /\ chat_session.exists
    /\ Len(chat_reqs) < MaxMessages
    /\ \E message \in {"a", "b"} :
         /\ chat_session' = [chat_session EXCEPT
                                !.lastActive = srv_now,
                                !.chatLog = Append(@, [role |-> "user", text |-> message]),
                                !.history = Append(@, [role |-> "user", text |-> message])]
         /\ chat_reqs' = Append(chat_reqs,
                                [message |-> message,
                                 sent |-> Append(chat_session.history,
                                                 [role |-> "user", text |-> message]),
                                 pc |-> "await"])
    /\ UNCHANGED <<invokerVars, scanVars, genVars, allVars, fillVars, serverVars>>

\* server.js 1087-1120: callGemini resolves: the model's turn is pushed on
\* history, the reply on chatLog, and the keywords are merged.
ModelReplied ==
    /\ \E i \in 1..Len(chat_reqs), resp \in Responses :
         /\ chat_reqs[i].pc = "await"
         /\ chat_reqs' = [chat_reqs EXCEPT ![i].pc = "replied"]
         /\ chat_session' = [chat_session EXCEPT
                                !.history = Append(@, [role |-> "model",
                                                       text |-> IF resp.text # "" THEN resp.text
                                                                ELSE resp.reply]),
                                !.chatLog = Append(@, [role |-> "ai", text |-> resp.reply]),
                                !.keywords = MergeKeywords(@, resp.keywords)]
    /\ UNCHANGED <<invokerVars, scanVars, genVars, allVars, fillVars, serverVars>>

\* server.js 1087, 1121-1124 and 45: callGemini throws: the catch answers
\* 500 and changes nothing.
ModelFailed ==
    /\ \E i \in 1..Len(chat_reqs) :
         /\ chat_reqs[i].pc = "await"
         /\ chat_reqs' = [chat_reqs EXCEPT ![i].pc = "failed"]
    /\ UNCHANGED chat_session
    /\ UNCHANGED <<invokerVars, scanVars, genVars, allVars, fillVars, serverVars>>

ChatIdle ==
    /\ chat_session = [exists |-> FALSE, history |-> <<>>, chatLog |-> <<>>,
                       keywords |-> <<>>, lastActive |-> 0]
    /\ chat_reqs = <<>>

NextChat ==
    \/ ClockTick
    \/ ChatStart
    \/ MessageArrives
    \/ ModelReplied
    \/ ModelFailed

(***************************************************************************)
(* Specifications                                                          *)
(***************************************************************************)

InitInvoker ==
    /\ InvokerIdle
    /\ ScanIdle
    /\ GenIdle
    /\ AllIdle
    /\ FillIdle
    /\ ServerIdle
    /\ ChatIdle

NextInvoker ==
    \/ CallGeminiEnter
    \/ GenerateContentOk
    \/ GenerateContentFail
    \/ BackoffElapsed

SpecInvoker == InitInvoker /\ [][NextInvoker]_vars

InitScan ==
    /\ InvokerIdle
    /\ ScanCalled
    /\ GenIdle
    /\ AllIdle
    /\ FillIdle
    /\ ServerIdle
    /\ ChatIdle

SpecScan == InitScan /\ [][NextScan]_vars

InitPipeline ==
    /\ InvokerIdle
    /\ GenIdle
    /\ AllCalled
    /\ FillIdle
    /\ ServerIdle
    /\ ChatIdle

SpecPipeline == InitPipeline /\ [][NextPipeline]_vars

InitFill ==
    /\ InvokerIdle
    /\ ScanIdle
    /\ GenIdle
    /\ AllIdle
    /\ FillCalled
    /\ ServerIdle
    /\ ChatIdle

SpecFill == InitFill /\ [][NextFill]_vars

InitSynth ==
    /\ InvokerIdle
    /\ ScanIdle
    /\ GenCalled
    /\ AllIdle
    /\ FillIdle
    /\ ServerIdle
    /\ ChatIdle

SpecSynth == InitSynth /\ [][NextSynth]_vars

\* The server starts with an empty db.json and no request in progress.
InitServer ==
    /\ InvokerIdle
    /\ ScanIdle
    /\ GenIdle
    /\ AllIdle
    /\ FillIdle
    /\ ServerIdle
    /\ ChatIdle

SpecServer == InitServer /\ [][NextServer]_vars

SpecChat == InitServer /\ [][NextChat]_vars

(***************************************************************************)
(* Claims about callGemini, checked under SpecInvoker                      *)
(***************************************************************************)

CgDone == cg_pc \in {"returned", "thrown"}

AttemptIdx == {i \in DOMAIN cg_trace : cg_trace[i].ev = "attempt"}

SleepIdx == {i \in DOMAIN cg_trace : cg_trace[i].ev = "sleep"}

AttemptsOn(m) == Cardinality({i \in AttemptIdx : cg_trace[i].model = m})

\* The index in cg_trace of the chronologically last attempt (0 if none).
LastAttemptIdx ==
    IF AttemptIdx = {} THEN 0
    ELSE CHOOSE i \in AttemptIdx : \A j \in AttemptIdx : j <= i

\* The environment of C1: every call made to tier A (the first tier) failed
\* as rate-limited, and the first call made to tier B (the second) succeeded.
C1_Env ==
    /\ \A i \in AttemptIdx :
         cg_trace[i].model = 1 =>
            ~cg_trace[i].ok /\ cg_trace[i].status = RATE_LIMIT_STATUS
    /\ \A i \in AttemptIdx :
         (cg_trace[i].model = 2 /\ cg_trace[i].attempt = 0) => cg_trace[i].ok

\* C1: with tier A always rate-limited and tier B succeeding on its first
\* call, a finished call has made exactly 2 attempts on A, exactly 1 on B
\* and none on any later tier, and has returned B's response; while the call
\* runs, A is never attempted more than twice and no later tier is attempted.
C1_RateLimitedThenSuccess ==
    C1_Env =>
        /\ AttemptsOn(1) <= 2
        /\ AttemptsOn(2) <= 1
        /\ \A m \in 3..Len(MODELS) : AttemptsOn(m) = 0
        /\ CgDone =>
             /\ AttemptsOn(1) = 2
             /\ AttemptsOn(2) = 1
             /\ cg_pc = "returned"
             /\ cg_ret.kind = "response"
             /\ cg_ret.model = 2
             /\ cg_ret.seq = LastAttemptIdx

C1_Witness ==
    /\ C1_Env
    /\ cg_pc = "returned"
    /\ AttemptsOn(1) = 2
    /\ AttemptsOn(2) = 1
    /\ cg_ret.model = 2

\* The environment of C2: every call made failed with an error that is not
\* a rate limit.
C2_Env ==
    \A i \in AttemptIdx :
        ~cg_trace[i].ok /\ cg_trace[i].status # RATE_LIMIT_STATUS

\* C2: when every tier fails with an error that is not a rate limit, the
\* trace of a finished call is exactly one attempt per tier, in list order,
\* with no backoff sleep, and the error thrown is the error of the last tier.
C2_NonRateLimitOncePerTier ==
    (C2_Env /\ CgDone) =>
        /\ cg_pc = "thrown"
        /\ SleepIdx = {}
        /\ Len(cg_trace) = Len(MODELS)
        /\ \A i \in DOMAIN cg_trace :
             /\ cg_trace[i].model = i
             /\ cg_trace[i].attempt = 0
        /\ cg_ret.kind = "error"
        /\ cg_ret.model = Len(MODELS)
        /\ cg_ret.seq = Len(MODELS)
        /\ cg_ret.status = cg_trace[Len(MODELS)].status

C2_Witness ==
    /\ C2_Env
    /\ cg_pc = "thrown"
    /\ Len(cg_trace) = Len(MODELS)
    /\ cg_ret.model = Len(MODELS)
    /\ cg_trace[1].status # cg_ret.status

\* C3: for any mix of failures, the call throws only after every tier has
\* been attempted at least once and no attempt has succeeded, and the error
\* thrown is the error of the chronologically last attempt; an attempt that
\* succeeds always ends the call with a return.
C3_ThrowsLastErrorAfterAllTiers ==
    /\ cg_pc = "thrown" =>
         /\ \A m \in DOMAIN MODELS : AttemptsOn(m) >= 1
         /\ \A i \in AttemptIdx : ~cg_trace[i].ok
         /\ cg_ret.kind = "error"
         /\ cg_ret.seq = LastAttemptIdx
         /\ cg_ret.model = cg_trace[LastAttemptIdx].model
         /\ cg_ret.status = cg_trace[LastAttemptIdx].status
    /\ (\E i \in AttemptIdx : cg_trace[i].ok) => cg_pc = "returned"

C3_Witness ==
    /\ cg_pc = "thrown"
    /\ \E i, j \in AttemptIdx :
         /\ cg_trace[i].status = RATE_LIMIT_STATUS
         /\ cg_trace[j].status # RATE_LIMIT_STATUS
    /\ cg_trace[1].status # cg_ret.status
    /\ cg_ret.seq = LastAttemptIdx

(***************************************************************************)
(* Claims about the person scanner, checked under SpecScan                 *)
(***************************************************************************)

\* C6: at every point of a scan, on the single-photo and on the multi-photo
\* path, the roster under construction and the roster returned hold at
\* most MAX_PERSONS = 3 entries.
C6_RosterAtMostMaxPersons ==
    /\ Len(allPersons) <= 3
    /\ Len(scan_ret) <= 3
    /\ MAX_PERSONS = 3

\* The cap acts: the roster is full and a description of the photo is left.
C6_Witness ==
    /\ scan_pc = "multi_merge"
    /\ Len(allPersons) = 3
    /\ scan_desc # <<>>

\* A finished scan that took the single-photo path with a call that
\* succeeded: scan_res is that photo's response.
SingleScanDone ==
    /\ scan_pc = "returned"
    /\ Len(validPhotos) = 1
    /\ scan_res.kind = "response"

\* C7 as stated: every response of a single-photo scan that holds no
\* delimiter and is longer than 20 characters yields exactly one Person.
C7_AsStated ==
    (/\ SingleScanDone
     /\ ~Includes(scan_res.text, DELIMITER)
     /\ Len(scan_res.text) > 20)
    => Len(scan_ret) = 1

\* C7 (amended): a single-photo scan whose response holds no delimiter,
\* does not hold the sentinel NO_PERSON and is longer than 20 characters
\* once trimmed yields exactly one Person, person1, described by the
\* trimmed response.
C7_SinglePhotoNoDelimiter ==
    (/\ SingleScanDone
     /\ ~Includes(scan_res.text, DELIMITER)
     /\ ~Includes(scan_res.text, NO_PERSON)
     /\ Len(Trim(scan_res.text)) > 20)
    => /\ Len(scan_ret) = 1
       /\ scan_ret[1].description = Trim(scan_res.text)
       /\ scan_ret[1].personLabel = 1
       /\ scan_ret[1].photoIndex = validPhotos[1]

C7_Witness ==
    /\ SingleScanDone
    /\ ~Includes(scan_res.text, DELIMITER)
    /\ ~Includes(scan_res.text, NO_PERSON)
    /\ Len(scan_res.text) > 20
    /\ Len(scan_ret) = 1

\* The first 60 characters of s, lower-cased.
Prefix60(s) == [i \in 1..Min(60, Len(s)) |-> LowerChar(s[i])]

\* The positions at which a space-separated token of s starts: the first
\* position and the position after every space.
TokenStarts(s) == {1} \cup {i + 1 : i \in {p \in 1..Len(s) : s[p] = " "}}

\* The position after the token of s that starts at i.
TokenEnd(s, i) == SetMin({p \in i..Len(s) : s[p] = " "} \cup {Len(s) + 1})

\* Whether s[i..j-1] occurs in t.
OccursIn(s, i, j, t) ==
    \E q \in 0..(Len(t) - (j - i)) : \A k \in 0..(j - i - 1) : t[q + k + 1] = s[i + k]

\* The number of space-separated tokens (empty ones included) of the first
\* 60 lower-cased characters of src that occur in the first 60 lower-cased
\* characters of tgt.
SharedTokens(src, tgt) ==
    LET a == Prefix60(src)
        b == Prefix60(tgt)
    IN  Cardinality({i \in TokenStarts(a) : OccursIn(a, i, TokenEnd(a, i), b)})

MergeIdx == {i \in 1..Len(scan_trace) : scan_trace[i].ev = "merge"}

AllEvents(kind) == SelectSeq(all_trace, LAMBDA e : e.ev = kind)

\* The paths the resolved synthesizer calls gave, nulls left out, in order.
PathsGiven == SelectSeq(AllEvents("resolved"), LAMBDA e : e.ret # NullPath)

\* C4: when generateAllChibis returns, whatever roster of n persons
\* (0 <= n <= 3) the scanner gave and however each person's synthesis
\* ended, the returned list holds between 0 and n paths.
C4_OutputLengthWithinRoster ==
    all_pc = "returned" =>
        /\ Len(persons) \in 0..MAX_PERSONS
        /\ Len(all_ret) \in 0..Len(persons)

\* C4 witness: a roster of three persons whose syntheses ended differently
\* (a null and a path among them), returned with two paths.
C4_Witness ==
    /\ all_pc = "returned"
    /\ Len(persons) = 3
    /\ Len(all_ret) = 2
    /\ \E k \in 1..3 : AllEvents("resolved")[k].ret = NullPath

\* C5: the synthesizer is called exactly once for every roster entry, in
\* roster order, whatever the earlier calls gave; a person whose synthesis
\* used up all its attempts gives no path and the persons after it are
\* still synthesized; and neither the synthesizer nor the orchestrator ever
\* rejects because of a model error.
C5_EveryPersonSynthesizedOnce ==
    /\ gen_pc # "thrown"
    /\ all_pc # "thrown"
    /\ all_pc \in {"synth", "pace", "returned"} /\ Len(persons) > 0 =>
         /\ Len(AllEvents("call")) = all_i + 1
         /\ \A k \in 1..(all_i + 1) : AllEvents("call")[k].person = k
         /\ Len(AllEvents("resolved")) = IF all_pc = "synth" THEN all_i ELSE all_i + 1
         /\ \A k \in 1..Len(AllEvents("resolved")) :
              /\ AllEvents("resolved")[k].person = k
              /\ AllEvents("resolved")[k].ret = NullPath =>
                   ChibiPath(recordId, k) \notin {results[j] : j \in 1..Len(results)}
    /\ all_pc = "returned" =>
         /\ Len(AllEvents("call")) = Len(persons)
         /\ Len(AllEvents("resolved")) = Len(persons)
         /\ all_ret = [j \in 1..Len(PathsGiven) |-> PathsGiven[j].ret]

\* C5 witness: the first of three persons used up its three requests and
\* gave null, and the two persons after it were synthesized and gave paths.
C5_Witness ==
    /\ all_pc = "returned"
    /\ Len(persons) = 3
    /\ AllEvents("resolved")[1].ret = NullPath
    /\ AllEvents("resolved")[1].exhausted
    /\ all_ret = <<ChibiPath(recordId, 2), ChibiPath(recordId, 3)>>

(***************************************************************************)
(* Claims about the flood fill of removeWhiteBackground                    *)
(***************************************************************************)

\* The fill has run (the queue holds at least the seeds).
FillEnded == rwb_queue # <<>>

Positions == 0..(imgBuffer.width * imgBuffer.height - 1)

OnBorder(p) ==
    \/ p % imgBuffer.width = 0
    \/ p % imgBuffer.width = imgBuffer.width - 1
    \/ p \div imgBuffer.width = 0
    \/ p \div imgBuffer.width = imgBuffer.height - 1

\* p and q are side by side in a row or in a column.
Adjacent4(p, q) ==
    \/ /\ p \div imgBuffer.width = q \div imgBuffer.width
       /\ (p % imgBuffer.width) - (q % imgBuffer.width) \in {-1, 1}
    \/ /\ p % imgBuffer.width = q % imgBuffer.width
       /\ (p \div imgBuffer.width) - (q \div imgBuffer.width) \in {-1, 1}

WhitishAt(p) == Dist2(imgBuffer.data[p]) < 42 * 42

\* The least set holding S and closed under stepping to a whitish
\* 4-adjacent pixel.
RECURSIVE WhitishClosure(_)
WhitishClosure(S) ==
    LET T == S \cup {q \in Positions : WhitishAt(q) /\ \E p \in S : Adjacent4(p, q)}
    IN  IF T = S THEN S ELSE WhitishClosure(T)

\* The whitish pixels joined to a border pixel by a 4-connected path of
\* whitish pixels.
BorderConnected == WhitishClosure({p \in Positions : OnBorder(p) /\ WhitishAt(p)})

NoPixelWhitish == \A p \in Positions : Dist2(imgBuffer.data[p]) >= 42 * 42

\* C10: on an image with no whitish pixel the fill marks no pixel
\* BACKGROUND, marks every border pixel FOREGROUND, pushes no interior
\* pixel on the queue (so the interior stays UNVISITED), and no alpha is
\* changed.
C10_NoWhitishPixelNoBackground ==
    FillEnded /\ NoPixelWhitish =>
        /\ \A p \in Positions : rwb_mask[p] # BACKGROUND
        /\ \A p \in Positions : OnBorder(p) => rwb_mask[p] = FOREGROUND
        /\ \A i \in 1..Len(rwb_queue) : OnBorder(rwb_queue[i])
        /\ \A p \in Positions : ~OnBorder(p) => rwb_mask[p] = UNVISITED
        /\ \A p \in Positions : rwb_data[p].a = imgBuffer.data[p].a

\* C10 witness: a 3 x 3 image (one interior pixel) whose pixels are all at
\* distance exactly 42 from white, after the fill.
C10_Witness ==
    /\ FillEnded
    /\ imgBuffer.width = 3
    /\ imgBuffer.height = 3
    /\ \A p \in Positions : Dist2(imgBuffer.data[p]) = 42 * 42
    /\ rwb_pc = "trim"

\* Every pixel of the image is pure white.
UniformWhite ==
    \A p \in Positions :
        /\ imgBuffer.data[p].r = 255
        /\ imgBuffer.data[p].g = 255
        /\ imgBuffer.data[p].b = 255

\* C11: on a uniformly white image of any width and height the fill marks
\* every pixel BACKGROUND and, after the alpha pass and the anti-aliasing
\* pass, every pixel has alpha 0 and none the edge alpha 60: no pixel is
\* left to the foreground.
C11_UniformWhiteAllTransparent ==
    FillEnded /\ UniformWhite =>
        \A p \in Positions :
            /\ rwb_mask[p] = BACKGROUND
            /\ rwb_data[p].a = TRANSPARENT
            /\ rwb_data[p].a # EDGE_ALPHA

\* C11 witness: a white 3 x 3 image decoded opaque, after the passes.
C11_Witness ==
    /\ FillEnded
    /\ UniformWhite
    /\ imgBuffer.width = 3
    /\ imgBuffer.height = 3
    /\ imgBuffer.data[4].a = 255
    /\ rwb_data[4].a = TRANSPARENT
    /\ rwb_pc = "trim"

\* The fill run again on the buffer the passes left (rwb_data: the same
\* colours, the alpha the first run set).
SecondFill ==
    Flood([imgBuffer EXCEPT !.data = rwb_data],
          [pos \in Positions |-> UNVISITED],
          Seeds(imgBuffer.width, imgBuffer.height), 0)

\* The buffer after the alpha pass and the anti-aliasing pass of that
\* second run.
SecondData ==
    AntiAlias(ApplyAlpha(rwb_data, SecondFill.mask), SecondFill.mask,
              imgBuffer.width, imgBuffer.height)

PathReturned == gen_pc = "returned" /\ gen_ret # NullPath

\* C13 as stated: the image behind every path returned is 800 px high,
\* whether or not a step of the segmenter failed.
C13_AsStated == PathReturned => gen_out.height = OUTPUT_HEIGHT

\* C13 (amended): the image behind every path returned is the one
\* removeWhiteBackground gave: 800 px high when the segmenter completed,
\* and the accepted image itself, at its own height, when a step of the
\* segmenter failed.
C13_HeightWhenSegmented ==
    PathReturned =>
        /\ gen_raw # NoRaw
        /\ gen_out.segmented => gen_out.height = OUTPUT_HEIGHT
        /\ ~gen_out.segmented => gen_out.height = gen_raw.height

\* C13 witness: a 1024 px image was accepted, the segmenter completed and
\* the path returned is that of an 800 px image.
C13_Witness ==
    /\ PathReturned
    /\ gen_raw.height = 1024
    /\ gen_out.segmented
    /\ gen_out.height = OUTPUT_HEIGHT

(***************************************************************************)
(* Claims about removeWhiteBackground's result                             *)
(***************************************************************************)

\* C14: removeWhiteBackground never throws, and whenever a step of it
\* (decode, fill and alpha passes, encode and trim, resize) failed the call
\* has returned exactly the bytes it was given; it returns the resized
\* image only when no step failed.
C14_SegmenterTotal ==
    /\ rwb_pc # "thrown"
    /\ rwb_failed # "none" =>
         /\ rwb_pc = "returned"
         /\ rwb_ret.kind = "input"
         /\ rwb_ret.bytes = imgBuffer
    /\ rwb_pc = "returned" /\ rwb_failed = "none" => rwb_ret = RwbResizedPng
    /\ rwb_pc # "returned" => rwb_ret = RwbNoRet

\* C14 witness: the fill and the trim went through, the resize failed, and
\* the 3 x 3 input came back.
C14_Witness ==
    /\ rwb_pc = "returned"
    /\ rwb_failed = "resize"
    /\ FillEnded
    /\ imgBuffer.width = 3
    /\ imgBuffer.height = 3
    /\ rwb_data # imgBuffer.data
    /\ rwb_ret.bytes = imgBuffer

\* C15: every non-null path a person's synthesis returns is
\* /uploads/chibi-{recordId}-{personIndex}.png with personIndex the
\* person's 1-based place in the roster, whatever became of the persons
\* before it, and the file of that name is written when the path is
\* returned; the list returned holds exactly such paths.
C15_PathNamesRosterPosition ==
    /\ PathReturned =>
         /\ gen_ret = ChibiPath(recordId, all_i + 1)
         /\ gen_args.personIndex = all_i + 1
         /\ gen_ret \in files
    /\ \A k \in 1..Len(AllEvents("resolved")) :
         AllEvents("resolved")[k].ret # NullPath =>
             /\ AllEvents("resolved")[k].ret = ChibiPath(recordId, k)
             /\ ChibiPath(recordId, k) \in files
    /\ \A j \in 1..Len(results) :
         /\ results[j] \in files
         /\ \E k \in j..Len(persons) :
              /\ results[j] = ChibiPath(recordId, k)
              /\ AllEvents("resolved")[k].ret = results[j]

\* C15 witness: the second of three persons gave null, and the list
\* returned names persons 1 and 3, not 1 and 2.
C15_Witness ==
    /\ all_pc = "returned"
    /\ Len(persons) = 3
    /\ AllEvents("resolved")[2].ret = NullPath
    /\ all_ret = <<ChibiPath(recordId, 1), ChibiPath(recordId, 3)>>
    /\ files = {ChibiPath(recordId, 1), ChibiPath(recordId, 3)}

(***************************************************************************)
(* Claims about concurrent pipelines, checked under SpecServer             *)
(***************************************************************************)

\* C16 as stated: two pipeline invocations that overlap in time, started by
\* POST /api/records or by refresh-characters, have written no file in
\* common.
C16_AsStated ==
    \A j \in 1..Len(runs) : \A i \in runs[j].overlaps :
        runs[i].written \cap runs[j].written = {}

(***************************************************************************)
(* Claims about how generateSingleChibi reaches the model service,         *)
(* checked under SpecPipeline                                              *)
(***************************************************************************)

\* An attempt of the synthesizer has just ended on a request that failed
\* with an error.
AttemptFailedOnError ==
    /\ gen_pc \in {"sleep429", "sleep3"}
    /\ gen_last \in {"error", "error429"}

\* C17 as stated: the synthesizer's request goes through callGemini, so an
\* attempt that ends on a failed request has sent it to every tier of MODELS
\* (each earlier attempt having made at least one request).
C17_AsStated ==
    AttemptFailedOnError => gen_requests >= gen_attempt + Len(MODELS)

\* C17 (amended): the synthesizer sends each request straight to the model
\* service, naming the one image model, which is no tier of MODELS; every
\* attempt makes exactly one request, a failed request ends its attempt with
\* no other model tried, and a call makes at most MAX_RETRIES + 1 requests.
C17_OneRequestPerAttempt ==
    /\ \A m \in DOMAIN MODELS : MODELS[m] # IMAGE_MODEL
    /\ gen_pc \in {"request", "segment", "sleep429", "sleep3"} =>
         gen_requests = gen_attempt + 1
    /\ gen_pc \in {"returned", "thrown"} => gen_requests <= MAX_RETRIES + 1

C17_Witness ==
    /\ AttemptFailedOnError
    /\ gen_attempt = 1
    /\ gen_requests = 2

(***************************************************************************)
(* Claims about the order and the number of callGemini's attempts,         *)
(* checked under SpecInvoker                                               *)
(***************************************************************************)

\* C18: the attempts of a call go through the tiers strictly in list order:
\* the first attempt is on the first tier and every later attempt is on the
\* tier of the attempt before it or on the next one, so a tier that was left
\* is never attempted again; a successful attempt is the last event of the
\* call (no attempt and no sleep follows it) and the call has returned.
C18_TiersInOrderStopAtSuccess ==
    /\ \A i \in AttemptIdx :
         IF \A j \in AttemptIdx : i <= j
         THEN cg_trace[i].model = 1
         ELSE LET prev == CHOOSE j \in AttemptIdx :
                              j < i /\ \A k \in AttemptIdx : k < i => k <= j
              IN  cg_trace[i].model \in {cg_trace[prev].model, cg_trace[prev].model + 1}
    /\ \A i, j \in AttemptIdx : i < j => cg_trace[i].model <= cg_trace[j].model
    /\ \A i \in AttemptIdx :
         cg_trace[i].ok => (i = Len(cg_trace) /\ cg_pc = "returned")

C18_Witness ==
    /\ cg_pc = "returned"
    /\ cg_trace[Len(cg_trace)].ok
    /\ cg_trace[Len(cg_trace)].model = 3
    /\ AttemptsOn(1) = 2
    /\ AttemptsOn(2) = 1

\* The attempts made on the tier of attempt i before attempt i.
EarlierOnTier(i) ==
    {k \in AttemptIdx : k < i /\ cg_trace[k].model = cg_trace[i].model}

RateLimitedAt(i) ==
    /\ ~cg_trace[i].ok
    /\ cg_trace[i].status = RATE_LIMIT_STATUS

\* C19: within one call every tier is attempted at most twice, so at most
\* 2 x |MODELS| attempts are made; a second attempt on a tier comes only
\* after the first one failed as rate-limited, with exactly one sleep of
\* 2000 ms between the two and nothing else; every sleep of the call is such
\* a backoff; and after a second attempt that failed as rate-limited the call
\* does not sleep: it is requesting the next tier or has thrown.
C19_TwoAttemptsOneBackoff ==
    /\ \A m \in DOMAIN MODELS : AttemptsOn(m) <= 2
    /\ Cardinality(AttemptIdx) <= 2 * Len(MODELS)
    /\ \A j \in AttemptIdx : \A i \in EarlierOnTier(j) :
         /\ RateLimitedAt(i)
         /\ j = i + 2
         /\ cg_trace[i + 1] = Sleep(cg_trace[i].model, BACKOFF_MS)
    /\ \A k \in SleepIdx :
         /\ cg_trace[k].ms = BACKOFF_MS
         /\ k - 1 \in AttemptIdx
         /\ RateLimitedAt(k - 1)
         /\ EarlierOnTier(k - 1) = {}
         /\ cg_trace[k].model = cg_trace[k - 1].model
    /\ \A j \in AttemptIdx :
         (EarlierOnTier(j) # {} /\ RateLimitedAt(j)) =>
            IF j = Len(cg_trace)
            THEN cg_pc \in {"call", "thrown"} /\ (cg_pc = "call" => cg_model = cg_trace[j].model + 1)
            ELSE /\ cg_trace[j + 1].ev = "attempt"
                 /\ cg_trace[j + 1].model = cg_trace[j].model + 1

C19_Witness ==
    /\ Len(cg_trace) >= 4
    /\ cg_trace[1].model = 1 /\ RateLimitedAt(1)
    /\ cg_trace[2].ev = "sleep"
    /\ cg_trace[3].ev = "attempt" /\ cg_trace[3].model = 1 /\ RateLimitedAt(3)
    /\ cg_trace[4].ev = "attempt" /\ cg_trace[4].model = 2
    /\ cg_pc = "thrown"
    /\ Cardinality(AttemptIdx) = 2 * Len(MODELS)

(***************************************************************************)
(* Claims about the list generateAllChibis returns, checked under          *)
(* SpecPipeline                                                            *)
(***************************************************************************)

\* The positions of list at which the path p stands.
PositionsOf(list, p) == {a \in 1..Len(list) : list[a] = p}

\* The list holds, in roster order and once each, exactly the paths that
\* the first n persons' syntheses gave.
InRosterOrder(list, n) ==
    LET given == [k \in 1..n |-> AllEvents("resolved")[k].ret]
        yielded == {k \in 1..n : given[k] # NullPath}
    IN  /\ \A a \in 1..Len(list) : \E k \in yielded : list[a] = given[k]
        /\ \A k \in yielded : Cardinality(PositionsOf(list, given[k])) = 1
        /\ \A i, j \in yielded :
             i < j => \A a \in PositionsOf(list, given[i]) :
                        \A b \in PositionsOf(list, given[j]) : a < b
        /\ \A a, b \in 1..Len(list) : a # b => list[a] # list[b]

\* C20: the list generateAllChibis returns is the subsequence of the roster's
\* successful syntheses, in roster order: it holds the path of every person
\* whose synthesis gave one and nothing else, the path of person i stands
\* before the path of person j whenever i < j, and no path stands in it
\* twice; the list collected so far has the same shape after every person.
C20_ReturnedInRosterOrder ==
    /\ all_pc = "pace" => InRosterOrder(results, all_i + 1)
    /\ all_pc = "returned" /\ Len(persons) > 0 =>
         /\ Len(AllEvents("resolved")) = Len(persons)
         /\ InRosterOrder(all_ret, Len(persons))
    /\ all_pc = "returned" /\ Len(persons) = 0 => all_ret = <<>>

C20_Witness ==
    /\ all_pc = "returned"
    /\ Len(persons) = 3
    /\ AllEvents("resolved")[1].ret = NullPath
    /\ AllEvents("resolved")[2].ret # NullPath
    /\ AllEvents("resolved")[3].ret # NullPath
    /\ all_ret = <<AllEvents("resolved")[2].ret, AllEvents("resolved")[3].ret>>

(***************************************************************************)
(* Claims about the pacing and the sequencing of generateAllChibis,        *)
(* checked under SpecPipeline                                              *)
(***************************************************************************)

\* C21: with a roster of n >= 1 persons the events of a run are, for each
\* person in turn, the call of the synthesizer and its resolution, with one
\* sleep of 3000 ms between the resolution for a person and the call for
\* the next, whether that resolution gave a path or null; the run returns
\* right after the last person's resolution, having slept exactly n - 1
\* times; with an empty roster the run returns with no synthesizer call
\* and no sleep.
C21_PacingBetweenPersons ==
    /\ all_pc = "pace" => all_i < Len(persons) - 1
    /\ \A k \in DOMAIN all_trace :
         /\ all_trace[k].ev = (IF k % 3 = 1 THEN "call"
                               ELSE IF k % 3 = 2 THEN "resolved" ELSE "sleep")
         /\ all_trace[k].person = (k + 2) \div 3
         /\ all_trace[k].ev = "sleep" => all_trace[k].ms = PERSON_PACING_MS
    /\ all_pc = "returned" /\ Len(persons) >= 1 =>
         /\ Len(AllEvents("sleep")) = Len(persons) - 1
         /\ Len(AllEvents("call")) = Len(persons)
         /\ all_trace[Len(all_trace)].ev = "resolved"
    /\ all_pc = "returned" /\ Len(persons) = 0 =>
         /\ all_trace = <<>>
         /\ gen_pc = "idle"
         /\ gen_requests = 0

\* C21 witness: three persons, the first gave null and the second a path,
\* a sleep followed each of them, and the run returned after two sleeps.
C21_Witness ==
    /\ all_pc = "returned"
    /\ Len(persons) = 3
    /\ Len(all_trace) = 8
    /\ all_trace[2].ret = NullPath /\ all_trace[3].ev = "sleep"
    /\ all_trace[5].ret # NullPath /\ all_trace[6].ev = "sleep"

\* The model requests of the run that are in flight: the one of the
\* scanner's pending _describePersons call and the one of the synthesizer's
\* pending attempt.
RequestsInFlight ==
    (IF scan_pc \in {"single_call", "multi_call"} THEN 1 ELSE 0)
    + (IF gen_pc = "request" THEN 1 ELSE 0)

\* C22: within one run the stages follow one another: while the scanner has
\* not returned no synthesizer call has started; a synthesizer call runs
\* only after the scanner's call has ended; the call for a person starts
\* only after the call for the person before has resolved, so at most one
\* call is unresolved, and none while the run sleeps or has returned; and
\* at most one model request of the run is in flight.
C22_StagesSequential ==
    /\ all_pc \in {"start", "scan"} => (gen_pc = "idle" /\ all_trace = <<>>)
    /\ scan_pc # "idle" => all_pc = "scan"
    /\ gen_pc \notin {"idle", "returned", "thrown"} =>
         (all_pc = "synth" /\ scan_pc = "idle")
    /\ all_pc \in {"pace", "returned"} => gen_pc \in {"idle", "returned"}
    /\ Len(AllEvents("call")) - Len(AllEvents("resolved")) =
         (IF all_pc \in {"synth", "thrown"} THEN 1 ELSE 0)
    /\ \A k \in DOMAIN all_trace :
         (all_trace[k].ev = "call" /\ all_trace[k].person > 1) =>
            \E r \in 1..(k - 1) :
                /\ all_trace[r].ev = "resolved"
                /\ all_trace[r].person = all_trace[k].person - 1
    /\ RequestsInFlight <= 1

C22_Witness ==
    /\ all_pc = "synth"
    /\ all_i = 1
    /\ gen_pc = "request"
    /\ gen_attempt = 1
    /\ Len(AllEvents("resolved")) = 1
    /\ RequestsInFlight = 1

(***************************************************************************)
(* Claims about the pacing, the cap and the failures of                    *)
(* scanPersonsInPhotos, checked under SpecScan                             *)
(***************************************************************************)

\* The positions in scan_trace of the calls of _describePersons.
DescribeIdx == {i \in DOMAIN scan_trace : scan_trace[i].ev = "describe"}

\* C23 as stated: in a multi-photo scan a pacing sleep of 1500 ms lies
\* between every two consecutive calls of _describePersons, whatever the
\* earlier call gave.
C23_AsStated ==
    \A i, j \in DescribeIdx :
        i < j => \E k \in (i + 1)..(j - 1) : scan_trace[k] = EvSleep(SCAN_PACING_MS)

\* The positions in scan_trace at which the roster reached MAX_PERSONS: a
\* description accepted as the MAX_PERSONS-th person.
CapReachedIdx ==
    {i \in DOMAIN scan_trace :
        /\ scan_trace[i].ev = "merge"
        /\ ~scan_trace[i].dropped
        /\ scan_trace[i].n = MAX_PERSONS - 1}

\* C24: once the roster of a multi-photo scan holds MAX_PERSONS persons no
\* further photo is sent to _describePersons and no further description is
\* examined or accepted: nothing but a pacing sleep follows in the trace,
\* the roster stays as it is, and the scan returns that roster although
\* photos may remain.
C24_StopsAtCap ==
    /\ \A i \in CapReachedIdx : \A j \in (i + 1)..Len(scan_trace) :
         scan_trace[j].ev = "sleep"
    /\ Len(allPersons) >= MAX_PERSONS =>
         /\ CapReachedIdx # {}
         /\ scan_pc \in {"multi_merge", "multi_sleep", "returned"}
         /\ scan_pc = "returned" => scan_ret = allPersons
    /\ scan_pc \in {"single_call", "multi_call"} => Len(allPersons) < MAX_PERSONS

\* C24 witness: three photos, the first gave three persons (and a fourth
\* description), and the scan returned having sent one photo only.
C24_Witness ==
    /\ scan_pc = "returned"
    /\ Len(validPhotos) = 3
    /\ Len(scan_ret) = MAX_PERSONS
    /\ Cardinality(DescribeIdx) = 1
    /\ Len(DescribePersons(scan_res)) > MAX_PERSONS

\* The last call of _describePersons that resolved was one whose callGemini
\* call threw.
LastCallFailed == scan_res.kind = "error"

\* C25: the scan never rejects; a call of _describePersons whose callGemini
\* call threw adds nobody to the roster (its photo has no merge event and
\* the scan goes straight on); after it, the next photo is sent to the model
\* or, when the photo was the last, the scan returns the roster collected so
\* far; and a multi-photo scan that returns a roster below MAX_PERSONS has
\* sent every valid photo, in order, whatever calls failed.
C25_FailedCallSkipsPhotoOnly ==
    /\ scan_pc # "thrown"
    /\ LastCallFailed =>
         /\ scan_pc \in {"multi_call", "returned"}
         /\ Len(allPersons) < MAX_PERSONS
         /\ scan_pc = "multi_call" =>
              /\ Len(scan_trace) >= 2
              /\ scan_trace[Len(scan_trace)] = EvDescribe(validPhotos[scan_k])
              /\ scan_trace[Len(scan_trace) - 1] = EvDescribe(validPhotos[scan_k - 1])
         /\ scan_pc = "returned" =>
              /\ scan_trace[Len(scan_trace)] = EvDescribe(validPhotos[Len(validPhotos)])
              /\ scan_ret = allPersons
    /\ (scan_pc = "returned" /\ Len(validPhotos) >= 2 /\ Len(scan_ret) < MAX_PERSONS) =>
         /\ Cardinality(DescribeIdx) = Len(validPhotos)
         /\ \A i, j \in DescribeIdx :
              i < j => scan_trace[i].photo < scan_trace[j].photo

\* C25 witness: of three photos the first gave a person, the call for the
\* second failed, and the third is being described.
C25_Witness ==
    /\ LastCallFailed
    /\ scan_pc = "multi_call"
    /\ Len(validPhotos) = 3
    /\ scan_k = 3
    /\ Len(allPersons) = 1

(***************************************************************************)
(* Claims about how _describePersons parses a response and about the       *)
(* scanner's two paths, checked under SpecScan                             *)
(***************************************************************************)

\* The trimmed text of the last response.
ResText == Trim(scan_res.text)

\* The response passed the tests of server.js 134 and is split.
IsSplit == scan_res.kind = "response" /\ ~Includes(ResText, NO_PERSON) /\ Len(ResText) >= 20

\* The trimmed fragments of the response, in order.
Fragments ==
    LET f == Split(ResText, DELIMITER) IN [i \in 1..Len(f) |-> Trim(f[i])]

\* The fragments of at least n characters, in order.
FragmentsOfAtLeast(n) ==
    FilterSeq(Fragments, [i \in 1..Len(Fragments) |-> Len(Fragments[i]) >= n])

\* No fragment is longer than 20 characters although the text is: the
\* whole text is returned as the one description (server.js 137).
WholeTextTaken ==
    /\ \A i \in 1..Len(Fragments) : Len(Fragments[i]) <= 20
    /\ Len(ResText) > 20

\* The descriptions of the roster returned.
RosterDescriptions == [i \in 1..Len(scan_ret) |-> scan_ret[i].description]

\* A multi-photo scan has just received a non-empty list of descriptions and
\* merged none of them yet: scan_desc is what _describePersons returned.
JustDescribed ==
    /\ scan_pc = "multi_merge"
    /\ scan_trace[Len(scan_trace)].ev = "describe"

\* C26 as stated: the fragments a split response keeps are exactly those of
\* at least 20 characters (checked where the whole text is not taken).
C26_AsStated ==
    (IsSplit /\ ~WholeTextTaken) =>
        /\ SingleScanDone => RosterDescriptions = SliceMax(FragmentsOfAtLeast(20))
        /\ JustDescribed => scan_desc = FragmentsOfAtLeast(20)

\* C26 (amended): a fragment of a split response is discarded if and only
\* if its trimmed length is 20 characters or fewer, so a fragment of exactly
\* 20 characters is discarded; the fragments longer than 20 characters are
\* the descriptions, in order (the first MAX_PERSONS of them on the
\* single-photo path), and when there is none and the whole text is longer
\* than 20 characters the whole text is the one description.
C26_FragmentsOver20Kept ==
    IsSplit =>
        LET expected == IF WholeTextTaken THEN <<ResText>> ELSE FragmentsOfAtLeast(21)
        IN  /\ SingleScanDone => RosterDescriptions = SliceMax(expected)
            /\ JustDescribed => scan_desc = expected
            /\ (scan_pc = "multi_merge" /\ expected = <<>>) => ~JustDescribed

\* C26 witness: a response with a fragment of exactly 20 characters after a
\* longer one: the longer one alone is the roster.
C26_Witness ==
    /\ SingleScanDone
    /\ IsSplit
    /\ \E i \in 1..Len(Fragments) : Len(Fragments[i]) = 20
    /\ Len(scan_ret) = 1
    /\ scan_ret[1].description = D_gaps

\* The scan took the single-photo path (server.js 84-88): its only events
\* are one call of _describePersons and the return.
TookSinglePath ==
    \/ scan_pc = "single_call"
    \/ scan_pc = "returned" /\ Len(scan_trace) = 1

\* The scan took the multi-photo path (server.js 91-113).
TookMultiPath ==
    \/ scan_pc \in {"multi_call", "multi_merge", "multi_sleep"}
    \/ scan_pc = "returned" /\ Len(scan_trace) >= 2

\* The number of photos of the input list whose file exists.
ExistingPhotos == Cardinality({i \in 1..Len(imagePaths) : imagePaths[i].exists})

\* C27 as stated: the single-photo path is taken exactly when the input
\* list holds exactly one photo, and on the multi-photo path no description
\* of the first photo is dropped as a duplicate.
C27_AsStated ==
    /\ scan_pc # "start" => (TookSinglePath <=> Len(imagePaths) = 1)
    /\ \A i \in MergeIdx :
         (TookMultiPath /\ scan_trace[i].photo = validPhotos[1]) => ~scan_trace[i].dropped

\* C27 (amended): the single-photo path, which compares no descriptions, is
\* taken exactly when exactly one photo of the input list exists on disk,
\* and the multi-photo path exactly when two or more exist; on the
\* multi-photo path the dedup check is applied to every description of
\* every photo, the first included: a description is dropped exactly when
\* it duplicates a description accepted before it, of the same or of an
\* earlier photo, so only the first description examined is always accepted.
C27_PathByExistingPhotosDedupEveryPhoto ==
    /\ scan_pc # "start" =>
         /\ TookSinglePath <=> ExistingPhotos = 1
         /\ TookMultiPath <=> ExistingPhotos >= 2
    /\ TookSinglePath => MergeIdx = {}
    /\ (TookSinglePath /\ scan_pc = "returned") =>
         Len(scan_ret) = Min(MAX_PERSONS, Len(DescribePersons(scan_res)))
    /\ \A i \in MergeIdx :
         scan_trace[i].dropped <=>
            \E j \in MergeIdx :
                /\ j < i
                /\ ~scan_trace[j].dropped
                /\ Overlap(scan_trace[j].d, scan_trace[i].d) > DEDUP_OVERLAP

\* C27 witness: three photos of which two exist, and a description of the
\* first of them was dropped as a duplicate of an earlier one of that photo.
C27_Witness ==
    /\ Len(imagePaths) = 3
    /\ Len(validPhotos) = 2
    /\ TookMultiPath
    /\ \E i \in MergeIdx :
         /\ scan_trace[i].photo = validPhotos[1]
         /\ scan_trace[i].dropped

(***************************************************************************)
(* Claims about the attempts of generateSingleChibi, checked under         *)
(* SpecPipeline                                                            *)
(***************************************************************************)

\* Some attempt of the current call received a response with an accepted
\* image part.
ImageAccepted == gen_raw # NoRaw

\* The current call of generateSingleChibi has returned.
GenDone == gen_pc = "returned"

\* C28 as stated: a call issues at most 3 requests; once an attempt has
\* yielded an accepted image the call returns with no further request or
\* sleep; and a call that returned gave null exactly when no attempt yielded
\* an accepted image (none at all when the photo is missing).
C28_AsStated ==
    /\ gen_requests <= 3
    /\ ImageAccepted => gen_pc \in {"segment", "returned"}
    /\ GenDone => (gen_ret = NullPath <=> ~ImageAccepted)

\* C28 (amended): a call issues at most MAX_RETRIES + 1 = 3 requests; it
\* returns a path at the first attempt that yields an accepted image whose
\* file is written, issuing no further request; it returns null exactly when
\* no attempt both yielded an accepted image and wrote its file: after 3
\* requests that each ended in an error, no candidates, no accepted image
\* part or a failed write, or after no request because the photo is missing.
C28_AtMostThreeRequests ==
    /\ gen_requests <= MAX_RETRIES + 1
    /\ gen_last = "accepted" => gen_pc \in {"segment", "returned"}
    /\ (ImageAccepted /\ gen_pc \notin {"segment", "returned"}) => gen_out = NoOut
    /\ (GenDone /\ gen_ret # NullPath) =>
         /\ gen_last = "accepted"
         /\ ImageAccepted
         /\ gen_ret \in files
         /\ gen_out # NoOut
         /\ gen_requests = gen_attempt + 1
    /\ (GenDone /\ gen_ret = NullPath) =>
         /\ gen_out = NoOut
         /\ \/ gen_requests = 0 /\ gen_last = "none"
            \/ /\ gen_requests = MAX_RETRIES + 1
               /\ gen_last \in {"error", "error429", "nocandidates", "noimage", "writefail"}

\* C28 witness: the second attempt yielded an accepted image and the call
\* returned its path after two requests.
C28_Witness ==
    /\ GenDone
    /\ gen_ret # NullPath
    /\ gen_attempt = 1
    /\ gen_requests = 2

\* C29 as stated: when a further attempt's request is issued, the time slept
\* since the attempt before it ended is 3000 ms, and 4000 ms more when that
\* attempt failed as rate-limited, whatever made it fail; after the last
\* attempt no 3000 ms sleep is taken.
C29_AsStated ==
    /\ (gen_pc = "request" /\ gen_attempt >= 1) =>
          gen_gap = RETRY_SLEEP_MS
                    + (IF gen_last = "error429" THEN RATE_LIMIT_SLEEP_MS ELSE 0)
    /\ (GenDone /\ gen_ret = NullPath /\ gen_requests = MAX_RETRIES + 1) =>
          gen_gap = (IF gen_last = "error429" THEN RATE_LIMIT_SLEEP_MS ELSE 0)

\* The position of the first inline image part of at least 5000 bytes in a
\* list of parts (0: there is none).
FirstAtFloor(ps) ==
    IF \E i \in 1..Len(ps) : ps[i].kind = "image" /\ ps[i].bytes >= 5000
    THEN CHOOSE i \in 1..Len(ps) :
            /\ ps[i].kind = "image" /\ ps[i].bytes >= 5000
            /\ \A j \in 1..(i - 1) : ~(ps[j].kind = "image" /\ ps[j].bytes >= 5000)
    ELSE 0

\* C30: the image part a call accepts is an inline image of at least 5000
\* bytes and is the first such part of its response; only an accepted part
\* is passed to removeWhiteBackground, and only for an accepted part is the
\* person's file written and a path returned, so no part below the floor is
\* ever segmented or written.
C30_OnlyFirstPartAtFloorUsed ==
    /\ ImageAccepted =>
         /\ gen_raw.bytes >= 5000
         /\ \E ps \in PartLists :
              /\ FirstAtFloor(ps) # 0
              /\ gen_raw = [part |-> FirstAtFloor(ps),
                            bytes |-> ps[FirstAtFloor(ps)].bytes,
                            height |-> ps[FirstAtFloor(ps)].height]
    /\ gen_pc = "segment" => (ImageAccepted /\ gen_last = "accepted")
    /\ gen_out # NoOut => ImageAccepted
    /\ (gen_pc \notin {"idle"} /\ ChibiPath(gen_args.recordId, gen_args.personIndex) \in files) =>
          ImageAccepted
    /\ PathReturned => (ImageAccepted /\ gen_ret \in files)

\* C30 witness: the response held a text part, an image below the floor and
\* an image above it, and the third part was written and its path returned.
C30_Witness ==
    /\ PathReturned
    /\ gen_raw.part = 3
    /\ gen_raw.bytes = 5001
    /\ gen_ret \in files

(***************************************************************************)
(* Claims about the pose generateSingleChibi selects, checked under        *)
(* SpecSynth                                                               *)
(***************************************************************************)

\* server.js 167: CHIBI_POSES[poseIdx] is one of the poses (not undefined).
PoseDefined(idx) == ~idx.nan /\ idx.val \in 0..(POSE_COUNT - 1)

\* The call has computed its pose index.
PoseSelected == gen_pc \notin {"idle", "called"}

\* C31: for every personIndex >= 1 and every record identifier made by
\* Date.now().toString(), the pose index of a call is
\* (personIndex - 1 + recordId mod 6) mod 6, the identifier read as the
\* number it spells; it lies in 0..5, so the pose embedded in the prompt is
\* one of the 6 poses.
C31_PoseIndexInRange ==
    PoseSelected =>
        /\ ~gen_args.poseIdx.nan
        /\ gen_args.poseIdx.val \in 0..5
        /\ PoseDefined(gen_args.poseIdx)
        /\ \E n \in 0..(MaxRecordId + 1) :
             /\ ToStringDec(n) = gen_args.recordId
             /\ gen_args.poseIdx.val = (gen_args.personIndex - 1 + (n % 6)) % 6

\* C31 witness: record identifier "11" and personIndex 7: 11 mod 6 = 5,
\* 6 + 5 = 11, and the pose index wraps to 5.
C31_Witness ==
    /\ PoseSelected
    /\ gen_args.recordId = <<"1", "1">>
    /\ gen_args.personIndex = 7
    /\ gen_args.poseIdx = [nan |-> FALSE, val |-> 5]

(***************************************************************************)
(* Claims about the alpha passes of removeWhiteBackground, checked under   *)
(* SpecFill                                                                *)
(***************************************************************************)

\* The two alpha passes have just run: rwb_data is the buffer they left.
PassesDone == FillEnded /\ rwb_pc = "trim"

\* Pixel p has a 4-adjacent pixel inside the image that is not BACKGROUND.
TouchesNonBackground(p) ==
    \E q \in Positions : Adjacent4(p, q) /\ rwb_mask[q] # BACKGROUND

\* The colour channels of pixel p are those it was decoded with.
ColourKept(p) ==
    /\ rwb_data[p].r = imgBuffer.data[p].r
    /\ rwb_data[p].g = imgBuffer.data[p].g
    /\ rwb_data[p].b = imgBuffer.data[p].b

RefreshWrote ==
    \E h \in 1..Len(refreshes) : refreshes[h].pc = "sleep" /\ refreshes'[h].pc = "done"

\* The store after the step holds the records of the store before it, in
\* order, with the same fields, except for chibi paths that were added.
StoreChangesKept ==
    /\ Len(db') = Len(db)
    /\ \A k \in 1..Len(db) :
         /\ db'[k].id = db[k].id
         /\ db'[k].imgs = db[k].imgs
         /\ db'[k].scenery = db[k].scenery
         /\ db[k].chibi => db'[k].chibi

\* C33: every change committed to the store while a refresh-characters
\* request is running (a record created by POST /api/records, a record
\* removed by DELETE, a chibi path written back by a background pipeline)
\* is still in the store after the request has written its result: its
\* write loses no record, brings back no removed record and removes no
\* chibi paths.
C33_AsStated == [][RefreshWrote => StoreChangesKept]_vars

(***************************************************************************)
(* Claims about the chat session, checked under SpecChat                   *)
(***************************************************************************)

\* The texts of the user turns of a history or a chatLog, in order.
UserTexts(turns) ==
    LET IsUser(t) == t.role = "user"
        users == SelectSeq(turns, IsUser)
    IN  [k \in 1..Len(users) |-> users[k].text]

\* The messages of the requests whose model call has not failed, in order
\* of arrival.
KeptMessages(reqs) ==
    LET NotFailed(r) == r.pc # "failed"
        kept == SelectSeq(reqs, NotFailed)
    IN  [k \in 1..Len(kept) |-> kept[k].message]

\* A request whose model call failed has left no user turn in the session.
FailedLeavesNoTurn(session, reqs) ==
    /\ UserTexts(session.chatLog) = KeptMessages(reqs)
    /\ session.exists => UserTexts(session.history) = <<"prompt">> \o KeptMessages(reqs)

\* The step in which a message request arrives while no other is waiting
\* for the model.
ArrivesAlone ==
    /\ Len(chat_reqs') = Len(chat_reqs) + 1
    /\ \A i \in 1..Len(chat_reqs) : chat_reqs[i].pc # "await"

\* The history ends with two copies of the same turn.
EndsDoubled(history) ==
    /\ Len(history) >= 2
    /\ history[Len(history) - 1] = history[Len(history)]

\* C34: when the model call of POST /api/chat/message fails, history and
\* chatLog of the session are as before the request (the user turns left
\* are those of the requests that did not fail), so a message repeated
\* after a failure is not sent to the model in a history that ends with
\* two copies of it.
C34_AsStated ==
    [][/\ FailedLeavesNoTurn(chat_session', chat_reqs')
       /\ ArrivesAlone => ~EndsDoubled(chat_reqs'[Len(chat_reqs')].sent)]_vars

====
